---- MODULE Spec2Model ----
(***************************************************************************)
(* A model of the Rust ("oxidize") query-predicate pipeline of TileDB:     *)
(*   - tiledb/oxidize/arrow/src/offsets.rs       byte offsets -> element   *)
(*                                               offsets                   *)
(*   - tiledb/oxidize/expr/src/query_condition.rs  query condition AST ->  *)
(*                                               logical expression        *)
(*   - tiledb/oxidize/arrow/src/record_batch.rs  result tile -> record     *)
(*                                               batch                     *)
(*   - tiledb/oxidize/query-predicates/src/lib.rs  QueryPredicates: the    *)
(*                                               Build/Evaluate object and *)
(*                                               the bitmap reduction      *)
(*   - tiledb/oxidize/expr/src/physical_expr.rs  evaluation of a condition *)
(*                                               to one byte per cell      *)
(*   - tiledb/oxidize/iterator-ext/src/append.rs IteratorExt::append       *)
(*   - oxidize/arithmetic/src/lib.rs             checked add and sub       *)
(* Each part has its own specification (SpecOff, SpecTr, SpecRb, SpecAa,  *)
(* SpecQc, SpecIt, SpecAr, SpecQP, SpecRed, SpecConc) over its own         *)
(* variables; the variables of the other parts stay idle.                  *)
(***************************************************************************)
EXTENDS Integers, Sequences, FiniteSets, TLC

VARIABLES
    off_fn,        \* offsets: the entry point that was called ("" before the call)
    off_vs,        \* offsets: argument value_size
    off_buf,       \* offsets: argument bytes, see OffsetBufs
    off_nv,        \* offsets: argument num_values
    off_out,       \* offsets: the returned Result
    tr_ast,        \* translator: the query condition AST handed to to_datafusion
    tr_out,        \* translator: the returned Result (and the nodes visited)
    qp,            \* QueryPredicates: the enum value, Build(Builder) or Evaluate(Evaluator)
    bitmap,        \* QueryPredicates: the caller-owned selection bitmap
    qp_ret,        \* QueryPredicates: what the last call returned
    qp_hist,       \* QueryPredicates: the call just made, the bitmap at construction
                   \* and the number of compiles that succeeded
    red_in,        \* reduction: the predicates, the tile and the bitmap of the runs
    red_pc,        \* reduction: the number of runs made
    red_out,       \* reduction: per run, the bitmap it left and what was returned
    c_pred,        \* concurrent evaluation: the shared compiled Evaluator
    c_pc,          \* concurrent evaluation: per thread, position inside evaluate_into_bitmap
    c_tile,        \* concurrent evaluation: per thread, the tile argument
    c_bm,          \* concurrent evaluation: per thread, the bitmap argument
    c_bm0,         \* concurrent evaluation: per thread, the bitmap at the call
    c_rb,          \* concurrent evaluation: per thread, the local RecordBatch `batch`
    c_res,         \* concurrent evaluation: per thread, the local `result`
    rb_schema,     \* record batch: the projected schema, its field names in order
    rb_tile,       \* record batch: the ResultTile handed to to_record_batch
    rb_out,        \* record batch: what to_record_batch returned
    qc_ast,        \* condition evaluation: the query condition AST
    qc_tile,       \* condition evaluation: the cells of the tile, one record of field values per cell
    qc_out,        \* condition evaluation: the returned bytes, one per cell, or the error
    it_src,        \* append: the elements of the underlying iterator at construction
    it_value,      \* append: the value handed to append
    it,            \* append: the Append struct, its fields a and b
    it_hist,       \* append: what the calls of next returned, in order
    it_ret,        \* append: the call just made and what it returned
    aa_f,          \* to_arrow_array: the arrow field argument
    aa_tile,       \* to_arrow_array: the fixed, var and validity buffers handed in
    aa_out,        \* to_arrow_array: the returned Result
    ar_call,       \* checked arithmetic: the function called, a, b and what out holds before the call
    ar_res         \* checked arithmetic: what the call returned and what out holds afterwards

offVars == <<off_fn, off_vs, off_buf, off_nv, off_out>>
trVars == <<tr_ast, tr_out>>
qpVars == <<qp, bitmap, qp_ret, qp_hist>>
redVars == <<red_in, red_pc, red_out>>
cVars == <<c_pred, c_pc, c_tile, c_bm, c_bm0, c_rb, c_res>>
rbVars == <<rb_schema, rb_tile, rb_out>>
qcVars == <<qc_ast, qc_tile, qc_out>>
itVars == <<it_src, it_value, it, it_hist, it_ret>>
aaVars == <<aa_f, aa_tile, aa_out>>
arVars == <<ar_call, ar_res>>
vars == <<offVars, trVars, qpVars, redVars, cVars, rbVars, qcVars, itVars, aaVars, arVars>>

Min(a, b) == IF a < b THEN a ELSE b

\* All sequences over S of length lo..hi.
SeqsOf(S, lo, hi) == UNION {[1..n -> S] : n \in lo..hi}

(***************************************************************************)
(* Offsets: tiledb/oxidize/arrow/src/offsets.rs                            *)
(***************************************************************************)

\* Bounds of the offsets inputs.
MaxOffsets == 2      \* at most this many raw offsets in a buffer
MaxOff == 4          \* raw offsets and num_values range up to this value
MinOff == 2          \* raw offsets range down to -MinOff

I64Bytes == 8        \* size_of::<i64>()

\* value_size arguments: Datatype::value_size() of the 1, 2 and 4 byte datatypes.
ValueSizes == {1, 2, 4}

\* A byte slice handed in as offsets: `words` are the i64 values it holds when
\* it is read from its start, `tail` the number of bytes left over after the
\* last whole i64, `misalign` the address of its first byte modulo 8.
OffsetBufs ==
    [misalign : {0, 4}, words : SeqsOf((0 - MinOff)..MaxOff, 0, MaxOffsets), tail : {0, 3}]

BufLen(bytes) == I64Bytes * Len(bytes.words) + bytes.tail

\* <[u8]>::align_to::<i64>(): the lengths of prefix and suffix, and the middle.
\* An empty slice has an empty prefix whatever its address is.  The middle
\* of a slice that starts 4 bytes after an 8-byte boundary holds the i64
\* values that straddle its words: value j is made of the upper four bytes of
\* word j (its low half, `lo`) and the lower four bytes of word j + 1 (its
\* high half, `hi`), each half held as an i32.
align_to(bytes) ==
    IF bytes.misalign # 0 /\ BufLen(bytes) > 0
    THEN LET p == Min(I64Bytes - bytes.misalign, BufLen(bytes))
             n == (BufLen(bytes) - p) \div I64Bytes
         IN  [prefix |-> p,
              middle |-> [j \in 1..n |->
                            [lo |-> IF bytes.words[j] < 0 THEN 0 - 1 ELSE 0,
                             hi |-> bytes.words[j + 1]]],
              suffix |-> (BufLen(bytes) - p) % I64Bytes]
    ELSE [prefix |-> 0, middle |-> bytes.words, suffix |-> bytes.tail]

OffOk(offs) == [tag |-> "Ok", offsets |-> offs, err |-> "", args |-> <<>>]
OffErr(e, a) == [tag |-> "Err", offsets |-> <<>>, err |-> e, args |-> a]
OffPanic == [tag |-> "Panic", offsets |-> <<>>, err |-> "index out of bounds", args |-> <<>>]

\* try_element_offset that leaves the offset in bytes.
try_element_offset_bytes(o, value_size) == o

\* The closure try_element_offset: o % value_size == 0, then o / value_size.
IsIntegral(o, value_size) == o % value_size = 0
try_element_offset(o, value_size) == o \div value_size

\* The last descending adjacent pair of sbuf in place of the first.
LastDescending(sbuf) ==
    CHOOSE i \in 1..(Len(sbuf) - 1) :
        /\ sbuf[i] > sbuf[i + 1]
        /\ \A j \in (i + 1)..(Len(sbuf) - 1) : sbuf[j] <= sbuf[j + 1]

\* The first index (0-based) of a descending adjacent pair of sbuf.
FirstDescending(sbuf) ==
    CHOOSE i \in 1..(Len(sbuf) - 1) :
        /\ sbuf[i] > sbuf[i + 1]
        /\ \A j \in 1..(i - 1) : sbuf[j] <= sbuf[j + 1]

\* try_new that looks at the sign of the first offset before it converts.
try_new_sign_first(value_size, raw_offsets) ==
    IF Len(raw_offsets) = 0 THEN OffPanic
    ELSE IF raw_offsets[1] < 0
    THEN OffErr("NegativeOffset", <<try_element_offset(raw_offsets[1], value_size)>>)
    ELSE IF \E i \in 1..Len(raw_offsets) : ~IsIntegral(raw_offsets[i], value_size)
    THEN OffErr("NonIntegralOffsets", <<>>)
    ELSE LET sbuf == [i \in 1..Len(raw_offsets) |->
                          try_element_offset(raw_offsets[i], value_size)]
         IN  IF \E i \in 1..(Len(sbuf) - 1) : sbuf[i] > sbuf[i + 1]
             THEN LET i == FirstDescending(sbuf)
                  IN  OffErr("DescendingOffsets", <<i - 1, sbuf[i], sbuf[i + 1]>>)
             ELSE OffOk(sbuf)

try_new(value_size, raw_offsets) ==
    IF \E i \in 1..Len(raw_offsets) : ~IsIntegral(raw_offsets[i], value_size)
    THEN OffErr("NonIntegralOffsets", <<>>)
    ELSE LET sbuf == [i \in 1..Len(raw_offsets) |->
                          try_element_offset(raw_offsets[i], value_size)]
         IN  IF Len(sbuf) = 0 THEN OffPanic
             ELSE IF sbuf[1] < 0 THEN OffErr("NegativeOffset", <<sbuf[1]>>)
             ELSE IF \E i \in 1..(Len(sbuf) - 1) : sbuf[i] > sbuf[i + 1]
             THEN LET i == FirstDescending(sbuf)
                  IN  OffErr("DescendingOffsets", <<i - 1, sbuf[i], sbuf[i + 1]>>)
             ELSE OffOk(sbuf)

try_from_bytes(value_size, bytes) ==
    LET a == align_to(bytes)
    IN  IF a.prefix # 0 \/ a.suffix # 0
        THEN OffErr("UnalignedOffsets", <<>>)
        ELSE try_new(value_size, a.middle)

\* try_from_bytes_and_num_values that does not append num_values.
try_from_bytes_and_no_num_values(value_size, bytes, num_values) ==
    try_from_bytes(value_size, bytes)

try_from_bytes_and_num_values(value_size, bytes, num_values) ==
    LET a == align_to(bytes)
    IN  IF a.prefix # 0 \/ a.suffix # 0
        THEN OffErr("UnalignedOffsets", <<>>)
        ELSE try_new(value_size, Append(a.middle, num_values))

(***************************************************************************)
(* Query condition translation: tiledb/oxidize/expr/src/query_condition.rs *)
(***************************************************************************)

\* Bounds of the translator inputs.
MaxByte == 1         \* payload bytes range over 0..MaxByte
MaxData == 3         \* payload length in bytes
MaxChildren == 4     \* children of a combination node over leaves
MaxNest == 2         \* children of a combination node that holds combination nodes

I32Max == 2147483647 \* i32::MAX, the limit of i32::try_from

\* The array schema of the examples: name -> Field.  "d" is a dimension.
\* cell_val_num is CellValNum: Single, "Fixed" with an arity above 1, or "Var".
\* The arity is n + over, held in two parts because it is a u32 and may pass
\* i32::MAX: over is what it has above i32::MAX.
ArraySchema ==
    [d |-> [datatype |-> "UINT8", cvn |-> [k |-> "Single", n |-> 1, over |-> 0], nullable |-> FALSE],
     n |-> [datatype |-> "UINT16", cvn |-> [k |-> "Single", n |-> 1, over |-> 0], nullable |-> TRUE],
     f |-> [datatype |-> "UINT8", cvn |-> [k |-> "Fixed", n |-> 2, over |-> 0], nullable |-> FALSE],
     v |-> [datatype |-> "UINT16", cvn |-> [k |-> "Var", n |-> 0, over |-> 0], nullable |-> TRUE],
     q |-> [datatype |-> "INVALID", cvn |-> [k |-> "Single", n |-> 1, over |-> 0], nullable |-> FALSE],
     h |-> [datatype |-> "UINT8", cvn |-> [k |-> "Fixed", n |-> I32Max, over |-> 1], nullable |-> FALSE],
     w |-> [datatype |-> "UINT8", cvn |-> [k |-> "Var", n |-> 0, over |-> 0], nullable |-> FALSE]]

\* Field names a leaf may carry; "x" is no field of the schema.
FieldNames == DOMAIN ArraySchema \cup {"x"}

\* Datatype::value_size()
value_size(datatype) ==
    CASE datatype = "UINT8" -> 1
      [] datatype = "UINT16" -> 2
      [] OTHER -> 1

\* ArraySchema::field_cxx: Some(field) or None
field_cxx(schema, name) ==
    IF name \in DOMAIN schema
    THEN [some |-> TRUE, name |-> name, f |-> schema[name]]
    ELSE [some |-> FALSE, name |-> name, f |-> <<>>]

QueryConditionOps ==
    {"LT", "LE", "GT", "GE", "EQ", "NE", "IN", "NOT_IN", "ALWAYS_TRUE", "ALWAYS_FALSE",
     "INVALID"}

CombinationOps == {"AND", "OR", "NOT", "INVALID"}

EmptyBuf == [misalign |-> 0, words |-> <<>>, tail |-> 0]

\* ASTNode: a leaf (is_expr() false) or a combination node (is_expr() true).
Leaf(name, op, data, offsets) ==
    [is_expr |-> FALSE, field_name |-> name, op |-> op, data |-> data,
     offsets |-> offsets, combination_op |-> "", children |-> <<>>]
Comb(cop, children) ==
    [is_expr |-> TRUE, field_name |-> "", op |-> "", data |-> <<>>,
     offsets |-> EmptyBuf, combination_op |-> cop, children |-> children]

\* datafusion::logical_expr::Expr, the variants the translator builds.
Column(name) == [e |-> "Column", name |-> name]
Literal(sv) == [e |-> "Literal", value |-> sv]
BinaryExpr(left, op, right) == [e |-> "BinaryExpr", left |-> left, op |-> op, right |-> right]
IsNull(x) == [e |-> "IsNull", arg |-> x]
IsNotNull(x) == [e |-> "IsNotNull", arg |-> x]
NotExpr(x) == [e |-> "Not", arg |-> x]
InList(x, list, negated) == [e |-> "InList", expr |-> x, list |-> list, negated |-> negated]
NoExpr == [e |-> "None"]

\* datafusion::common::ScalarValue
SvBoolean(b) == [sv |-> "Boolean", v |-> b]
SvNative(datatype, x) == [sv |-> datatype, v |-> x]
SvFixedSizeList(size, values) == [sv |-> "FixedSizeList", size |-> size, v |-> values]
SvLargeList(values) == [sv |-> "LargeList", v |-> values]

\* Result<Expr, Error> of the translator, with `calls` counting the nodes
\* to_datafusion_impl was entered for.  "Hang" is a call that never returns.
NoErr == [kind |-> "", name |-> "", args |-> <<>>]
TrOk(expr, calls) == [tag |-> "Ok", expr |-> expr, err |-> NoErr, calls |-> calls]
TrErr(kind, name, args, calls) ==
    [tag |-> "Err", expr |-> NoExpr, err |-> [kind |-> kind, name |-> name, args |-> args],
     calls |-> calls]
TrHang(calls) == [tag |-> "Hang", expr |-> NoExpr, err |-> NoErr, calls |-> calls]

\* T::from_ne_bytes on a little-endian target.
RECURSIVE from_ne_bytes(_)
from_ne_bytes(chunk) ==
    IF Len(chunk) = 0 THEN 0 ELSE chunk[1] + 256 * from_ne_bytes(Tail(chunk))

\* values_iter: the decoded values, or DatatypeMismatch(datatype, bytes.size()).
values_iter(datatype, bytes) ==
    LET vs == value_size(datatype)
    IN  IF Len(bytes) % vs # 0
        THEN [ok |-> FALSE, values |-> <<>>]
        ELSE [ok |-> TRUE,
              values |-> [i \in 1..(Len(bytes) \div vs) |->
                             from_ne_bytes(SubSeq(bytes, (i - 1) * vs + 1, i * vs))]]

\* i32::try_from(nz.get()).is_ok()
fits_i32(cvn) == cvn.n <= I32Max /\ cvn.over = 0

\* len_differs that lets through more values than the arity.
len_differs_below(k, cvn) == k - cvn.over < cvn.n

\* values.len() != nz.get() as usize, for the k values of a payload
len_differs(k, cvn) == k - cvn.over # cvn.n

\* array_values.len() % fixed_size; k is below an arity that passes i32::MAX
len_rem(k, cvn) == IF cvn.over = 0 THEN k % cvn.n ELSE k

\* schema::field_arrow_datatype: the FieldError of a field, "" when it has an
\* arrow data type.  A Fixed arity above i32::MAX has none, which is seen
\* before the datatype is looked at; and no arm has one for a datatype that
\* arrow_datatype does not know.
field_arrow_datatype(field) ==
    IF field.f.cvn.k = "Fixed" /\ ~fits_i32(field.f.cvn) THEN "InvalidCellValNum"
    ELSE IF field.f.datatype = "INVALID" THEN "InternalInvalidDatatype"
    ELSE ""

\* leaf_ast_to_binary_expr::apply
binary_apply(field, ast, operator) ==
    LET dt == field.f.datatype
        vals == values_iter(dt, ast.data)
        k == Len(vals.values)
        column == Column(field.name)
    IN  IF ~vals.ok
        THEN TrErr("User", "DatatypeMismatch", <<dt, Len(ast.data)>>, 1)
        ELSE IF field_arrow_datatype(field) # ""
        THEN TrErr("Internal", "SchemaField", <<field.name, field_arrow_datatype(field)>>, 1)
        ELSE CASE field.f.cvn.k = "Single" ->
                    IF k = 0
                    THEN TrErr("User", "CellValNumMismatch", <<field.f.cvn, 0>>, 1)
                    ELSE IF k > 1
                    THEN TrErr("User", "CellValNumMismatch", <<field.f.cvn, 1 + (k - 1)>>, 1)
                    ELSE TrOk(BinaryExpr(column, operator,
                                         Literal(SvNative(dt, vals.values[1]))), 1)
               [] field.f.cvn.k = "Fixed" ->
                    IF len_differs(k, field.f.cvn)
                    THEN TrErr("User", "CellValNumMismatch", <<field.f.cvn, k>>, 1)
                    ELSE IF ~fits_i32(field.f.cvn)
                    THEN TrErr("User", "CellValNumOutOfRange", <<field.f.cvn>>, 1)
                    ELSE TrOk(BinaryExpr(column, operator,
                                         Literal(SvFixedSizeList(field.f.cvn.n, vals.values))), 1)
               [] OTHER ->
                    TrOk(BinaryExpr(column, operator, Literal(SvLargeList(vals.values))), 1)

leaf_ast_to_binary_expr(schema, ast, op) ==
    LET field == field_cxx(schema, ast.field_name)
    IN  IF ~field.some
        THEN TrErr("User", "UnknownField", <<ast.field_name>>, 1)
        ELSE IF field.f.datatype = "INVALID"
        THEN TrErr("Internal", "InvalidDatatype", <<field.f.datatype>>, 1)
        ELSE binary_apply(field, ast, op)

\* leaf_ast_to_in_list::apply
in_list_apply(field, ast, negated) ==
    LET dt == field.f.datatype
        vals == values_iter(dt, ast.data)
        k == Len(vals.values)
        column == Column(field.name)
    IN  IF ~vals.ok
        THEN TrErr("User", "DatatypeMismatch", <<dt, Len(ast.data)>>, 1)
        ELSE CASE field.f.cvn.k = "Single" ->
                    TrOk(InList(column,
                                [i \in 1..k |-> Literal(SvNative(dt, vals.values[i]))],
                                negated), 1)
               [] field.f.cvn.k = "Fixed" ->
                    LET fixed_size == field.f.cvn.n
                    IN  IF len_rem(k, field.f.cvn) # 0
                        THEN TrErr("User", "InListCellValNumMismatch", <<field.f.cvn, k>>, 1)
                        ELSE IF ~fits_i32(field.f.cvn)
                        THEN TrErr("User", "CellValNumOutOfRange", <<field.f.cvn>>, 1)
                        ELSE TrOk(InList(column,
                                  [i \in 1..(k \div fixed_size) |->
                                     Literal(SvFixedSizeList(fixed_size,
                                        SubSeq(vals.values, (i - 1) * fixed_size + 1,
                                               i * fixed_size)))],
                                  negated), 1)
               [] OTHER ->
                    LET array_offsets ==
                            try_from_bytes_and_num_values(value_size(dt), ast.offsets,
                                                          Len(ast.data))
                        w == array_offsets.offsets
                    IN  IF array_offsets.tag = "Err"
                        THEN TrErr("User", "InListVarOffsets",
                                   <<array_offsets.err, array_offsets.args>>, 1)
                        ELSE IF \E i \in 1..(Len(w) - 1) : w[i + 1] > k
                        THEN [tag |-> "Panic", expr |-> NoExpr, err |-> NoErr, calls |-> 1]
                        ELSE TrOk(InList(column,
                                  [i \in 1..(Len(w) - 1) |->
                                     Literal(SvLargeList(SubSeq(vals.values, w[i] + 1, w[i + 1])))],
                                  negated), 1)

leaf_ast_to_in_list(schema, ast, negated) ==
    LET field == field_cxx(schema, ast.field_name)
    IN  IF ~field.some
        THEN TrErr("User", "UnknownField", <<ast.field_name>>, 1)
        ELSE IF field.f.datatype = "INVALID"
        THEN TrErr("Internal", "InvalidDatatype", <<field.f.datatype>>, 1)
        ELSE in_list_apply(field, ast, negated)

\* leaf_ast_to_null_test whose ALWAYS_TRUE arm does not look at nullability.
leaf_ast_to_null_test_not_nullable(schema, ast) ==
    LET field == field_cxx(schema, ast.field_name)
        column == Column(ast.field_name)
    IN  IF ~field.some
        THEN TrErr("User", "UnknownField", <<ast.field_name>>, 1)
        ELSE CASE ast.op = "EQ" -> TrOk(IsNull(column), 1)
               [] ast.op = "NE" -> TrOk(IsNotNull(column), 1)
               [] ast.op = "ALWAYS_TRUE" -> TrOk(Literal(SvBoolean(TRUE)), 1)
               [] ast.op = "ALWAYS_FALSE" -> TrOk(Literal(SvBoolean(FALSE)), 1)
               [] ast.op \in {"LT", "LE", "GT", "GE"} -> TrOk(Literal(SvBoolean(FALSE)), 1)
               [] OTHER -> TrErr("Internal", "InvalidOp", <<ast.op>>, 1)

leaf_ast_to_null_test(schema, ast) ==
    LET field == field_cxx(schema, ast.field_name)
        column == Column(ast.field_name)
    IN  IF ~field.some
        THEN TrErr("User", "UnknownField", <<ast.field_name>>, 1)
        ELSE CASE ast.op = "EQ" -> TrOk(IsNull(column), 1)
               [] ast.op = "NE" -> TrOk(IsNotNull(column), 1)
               [] ast.op = "ALWAYS_TRUE" ->
                    IF field.f.nullable
                    THEN TrOk(IsNotNull(column), 1)
                    ELSE TrOk(Literal(SvBoolean(TRUE)), 1)
               [] ast.op = "ALWAYS_FALSE" -> TrOk(Literal(SvBoolean(FALSE)), 1)
               [] ast.op \in {"LT", "LE", "GT", "GE"} -> TrOk(Literal(SvBoolean(FALSE)), 1)
               [] OTHER -> TrErr("Internal", "InvalidOp", <<ast.op>>, 1)

\* ASTNode::is_null_test
is_null_test(ast) == Len(ast.data) = 0 /\ ast.op \notin {"IN", "NOT_IN"}

\* leaf_ast_to_expr whose ALWAYS_FALSE arm is the ALWAYS_TRUE arm.
leaf_ast_to_expr_false_as_true(schema, ast) ==
    CASE ast.op \in {"LT", "LE", "GT", "GE", "EQ", "NE"} ->
            leaf_ast_to_binary_expr(schema, ast,
                [LT |-> "Lt", LE |-> "LtEq", GT |-> "Gt", GE |-> "GtEq", EQ |-> "Eq",
                 NE |-> "NotEq"][ast.op])
      [] ast.op \in {"IN", "NOT_IN"} -> leaf_ast_to_in_list(schema, ast, ast.op = "NOT_IN")
      [] ast.op \in {"ALWAYS_TRUE", "ALWAYS_FALSE"} ->
            LET field == field_cxx(schema, ast.field_name)
            IN  IF ~field.some
                THEN TrErr("User", "UnknownField", <<ast.field_name>>, 1)
                ELSE IF field.f.nullable
                THEN TrOk(IsNotNull(Column(ast.field_name)), 1)
                ELSE TrOk(Literal(SvBoolean(TRUE)), 1)
      [] OTHER -> TrErr("Internal", "InvalidOp", <<ast.op>>, 1)

\* to_datafusion_impl, the leaf that is no null test: match *query_condition.get_op()
leaf_ast_to_expr(schema, ast) ==
    CASE ast.op = "LT" -> leaf_ast_to_binary_expr(schema, ast, "Lt")
      [] ast.op = "LE" -> leaf_ast_to_binary_expr(schema, ast, "LtEq")
      [] ast.op = "GT" -> leaf_ast_to_binary_expr(schema, ast, "Gt")
      [] ast.op = "GE" -> leaf_ast_to_binary_expr(schema, ast, "GtEq")
      [] ast.op = "EQ" -> leaf_ast_to_binary_expr(schema, ast, "Eq")
      [] ast.op = "NE" -> leaf_ast_to_binary_expr(schema, ast, "NotEq")
      [] ast.op = "IN" -> leaf_ast_to_in_list(schema, ast, FALSE)
      [] ast.op = "NOT_IN" -> leaf_ast_to_in_list(schema, ast, TRUE)
      [] ast.op = "ALWAYS_TRUE" ->
            LET field == field_cxx(schema, ast.field_name)
            IN  IF ~field.some
                THEN TrErr("User", "UnknownField", <<ast.field_name>>, 1)
                ELSE IF field.f.nullable
                THEN TrOk(IsNotNull(Column(ast.field_name)), 1)
                ELSE TrOk(Literal(SvBoolean(TRUE)), 1)
      [] ast.op = "ALWAYS_FALSE" -> TrOk(Literal(SvBoolean(FALSE)), 1)
      [] OTHER -> TrErr("Internal", "InvalidOp", <<ast.op>>, 1)

\* chunks2 with the operands of each pair exchanged.
chunks2_swapped(level, operator) ==
    [i \in 1..((Len(level) + 1) \div 2) |->
        IF 2 * i <= Len(level)
        THEN BinaryExpr(level[2 * i], operator, level[2 * i - 1])
        ELSE level[2 * i - 1]]

\* One pass of the `while level.len() != 1` loop: Itertools::chunks(2), each
\* pair made a BinaryExpr and a single left over passed on as it is.
chunks2(level, operator) ==
    [i \in 1..((Len(level) + 1) \div 2) |->
        IF 2 * i <= Len(level)
        THEN BinaryExpr(level[2 * i - 1], operator, level[2 * i])
        ELSE level[2 * i - 1]]

\* The loop of combination_ast_to_binary_expr.  An empty level is mapped to an
\* empty level by every pass, so the loop never ends.
RECURSIVE fold_levels(_, _)
fold_levels(level, operator) ==
    IF Len(level) = 1 THEN [ends |-> TRUE, expr |-> level[1]]
    ELSE IF Len(level) = 0 THEN [ends |-> FALSE, expr |-> NoExpr]
    ELSE fold_levels(chunks2(level, operator), operator)

\* not_tree that only rejects a NOT without children.
not_tree_lax(children) == Len(children) = 0

\* The NOT arm's check `children.len() != 1`.
not_tree(children) == Len(children) # 1

RECURSIVE to_datafusion_impl(_, _)
RECURSIVE collect_children(_, _, _, _)

\* collect_children that translates every child and keeps the last error.
RECURSIVE collect_children_last_error(_, _, _, _)
collect_children_last_error(schema, children, acc, calls) ==
    IF Len(children) = 0
    THEN [tag |-> "Ok", level |-> acc, res |-> TrOk(NoExpr, calls), calls |-> calls]
    ELSE LET r == to_datafusion_impl(schema, Head(children))
             rest == collect_children_last_error(schema, Tail(children),
                                                 Append(acc, r.expr), calls + r.calls)
         IN  IF rest.tag # "Ok" \/ r.tag = "Ok" THEN rest
             ELSE [tag |-> r.tag, level |-> <<>>,
                   res |-> [r EXCEPT !.calls = rest.calls], calls |-> rest.calls]

\* children().map(|ast| to_datafusion_impl(schema, ast)).collect::<Result<Vec<_>, _>>():
\* the children are translated in order up to the first that fails.
collect_children(schema, children, acc, calls) ==
    IF Len(children) = 0
    THEN [tag |-> "Ok", level |-> acc, res |-> TrOk(NoExpr, calls), calls |-> calls]
    ELSE LET r == to_datafusion_impl(schema, Head(children))
         IN  IF r.tag # "Ok"
             THEN [tag |-> r.tag, level |-> <<>>,
                   res |-> [r EXCEPT !.calls = calls + r.calls], calls |-> calls + r.calls]
             ELSE collect_children(schema, Tail(children), Append(acc, r.expr),
                                   calls + r.calls)

\* combination_ast_to_binary_expr that joins the children with AND whatever
\* the operator of the node is.
combination_ast_to_binary_expr_all_and(schema, query_condition, operator) ==
    LET c == collect_children(schema, query_condition.children, <<>>, 1)
    IN  IF c.tag # "Ok" THEN c.res
        ELSE LET f == fold_levels(c.level, "And")
             IN  IF f.ends THEN TrOk(f.expr, c.calls) ELSE TrHang(c.calls)

combination_ast_to_binary_expr(schema, query_condition, operator) ==
    LET c == collect_children(schema, query_condition.children, <<>>, 1)
    IN  IF c.tag # "Ok" THEN c.res
        ELSE LET f == fold_levels(c.level, operator)
             IN  IF f.ends THEN TrOk(f.expr, c.calls) ELSE TrHang(c.calls)

to_datafusion_impl(schema, query_condition) ==
    IF query_condition.is_expr
    THEN CASE query_condition.combination_op = "AND" ->
                combination_ast_to_binary_expr(schema, query_condition, "And")
           [] query_condition.combination_op = "OR" ->
                combination_ast_to_binary_expr(schema, query_condition, "Or")
           [] query_condition.combination_op = "NOT" ->
                LET children == query_condition.children
                IN  IF not_tree(children)
                    THEN TrErr("Internal", "NotTree", <<Len(children)>>, 1)
                    ELSE LET negate_arg == to_datafusion_impl(schema, children[1])
                         IN  IF negate_arg.tag # "Ok"
                             THEN [negate_arg EXCEPT !.calls = 1 + negate_arg.calls]
                             ELSE TrOk(NotExpr(negate_arg.expr), 1 + negate_arg.calls)
           [] OTHER ->
                TrErr("Internal", "InvalidCombinationOp",
                      <<query_condition.combination_op>>, 1)
    ELSE IF is_null_test(query_condition)
    THEN leaf_ast_to_null_test(schema, query_condition)
    ELSE leaf_ast_to_expr(schema, query_condition)

to_datafusion(schema, query_condition) == to_datafusion_impl(schema, query_condition)

\* The query conditions handed to to_datafusion.
Payloads == SeqsOf(0..MaxByte, 0, MaxData)
LeafOffsetBufs == [misalign : {0}, words : SeqsOf(0..MaxData, 0, MaxOffsets), tail : {0, 3}]

PlainLeaves(names) ==
    {Leaf(name, op, data, EmptyBuf) :
        name \in names, op \in QueryConditionOps \ {"IN", "NOT_IN"}, data \in Payloads}
SetLeaves(names) ==
    {Leaf(t[1], t[2], t[3], t[4]) :
        t \in names \X {"IN", "NOT_IN"} \X Payloads \X LeafOffsetBufs}

\* The leaves combination nodes are built from: three that translate and two
\* that fail, with different errors.
LeafLt == Leaf("d", "LT", <<1>>, EmptyBuf)
LeafNull == Leaf("n", "EQ", <<>>, EmptyBuf)
LeafGe == Leaf("f", "GE", <<0, 1>>, EmptyBuf)
LeafUnknown == Leaf("x", "LT", <<1>>, EmptyBuf)
LeafMismatch == Leaf("d", "GT", <<1, 1>>, EmptyBuf)
CombLeaves == {LeafLt, LeafNull, LeafGe, LeafUnknown, LeafMismatch}

FlatCombs(ops) ==
    {Comb(cop, ch) : cop \in ops, ch \in SeqsOf(CombLeaves, 0, MaxChildren)}
SubCombs ==
    {Comb(cop, ch) : cop \in {"AND", "NOT"}, ch \in SeqsOf({LeafLt, LeafUnknown}, 0, MaxNest)}
NestedCombs(ops) ==
    {Comb(cop, ch) : cop \in ops, ch \in SeqsOf(CombLeaves \cup SubCombs, 1, MaxNest)}

TrNone == [tag |-> "None", expr |-> NoExpr, err |-> NoErr, calls |-> 0]

(***************************************************************************)
(* Tiles as record batches: tiledb/oxidize/arrow/src/record_batch.rs       *)
(***************************************************************************)

\* Bounds of the evaluation inputs.
MaxCells == 2        \* cells of a tile, entries of a bitmap
MaxPreds == 2        \* predicates added to one QueryPredicates
MaxCompiles == 2     \* cap of the count of successful compiles

Null == -1           \* a NULL cell of a column (a cleared validity bit)

CellVals == {0, 1}       \* the values of a cell of the u8 attribute "a"
BitVals == {0, 2}        \* the values of a bitmap entry (T = u8)

\* The fields of the array schema the predicates are written against, as the
\* projected arrow schema has them: every field nullable.
QpFields == <<"a", "b">>
ArrowField(name) == [name |-> name, data_type |-> "UInt8", nullable |-> TRUE]

\* TileTuple: fixed tile, var tile (present or not), validity tile (or none).
NoTuple == [some |-> FALSE, fixed |-> <<>>, has_var |-> FALSE,
            validity |-> [some |-> FALSE, bytes |-> <<>>]]
TileTuple(fixed, has_var, validity) ==
    [some |-> TRUE, fixed |-> fixed, has_var |-> has_var, validity |-> validity]
NoValidity == [some |-> FALSE, bytes |-> <<>>]
Validity(bytes) == [some |-> TRUE, bytes |-> bytes]

\* ResultTile: cell_num() and tile_tuple(name); no tile of this model has a
\* tuple for "b" (the attribute was added after the tile was written).
ResultTile(cell_num, a) == [cell_num |-> cell_num, tuples |-> [a |-> a, b |-> NoTuple]]

\* Tiles as the storage engine hands them over: every buffer of a tuple holds
\* cell_num cells.
SoundTiles ==
    UNION {{ResultTile(n, NoTuple)} \cup
           {ResultTile(n, TileTuple(fx, FALSE, NoValidity)) : fx \in [1..n -> CellVals]} \cup
           {ResultTile(n, TileTuple(t[1], FALSE, Validity(t[2]))) :
               t \in [1..n -> CellVals] \X [1..n -> {0, 1}]} : n \in 0..MaxCells}

\* Tiles that break the contract: a var tile on a fixed-size attribute, a
\* fixed tile that is one cell short, a validity tile that is one cell short.
BrokenTiles ==
    {ResultTile(MaxCells, TileTuple([i \in 1..MaxCells |-> 1], TRUE, NoValidity)),
     ResultTile(MaxCells, TileTuple([i \in 1..(MaxCells - 1) |-> 1], FALSE, NoValidity)),
     ResultTile(MaxCells, TileTuple([i \in 1..MaxCells |-> 1], FALSE,
                                    Validity([i \in 1..(MaxCells - 1) |-> 1])))}

Tiles == SoundTiles \cup BrokenTiles

RbOk(cols, n) == [tag |-> "Ok", num_rows |-> n, cols |-> cols, err |-> ""]
RbErr(e) == [tag |-> "Err", num_rows |-> 0, cols |-> <<>>, err |-> e]
RbPanic == [tag |-> "Panic", num_rows |-> 0, cols |-> <<>>, err |-> "panic"]

\* Result<Arc<dyn ArrowArray>, FieldError> without an array, and a panic.
ColErr(e) == [tag |-> "Err", col |-> <<>>, err |-> e, data_type |-> ""]
ColPanic == [tag |-> "Panic", col |-> <<>>, err |-> "panic", data_type |-> ""]

\* to_arrow_array for a primitive field: the column (Null where the validity
\* byte is 0), a FieldError, or the panic of PrimitiveArray::new when the
\* null buffer and the values differ in length.
\* to_arrow_array that wants a validity buffer for a nullable field.
to_arrow_array_expects_validity(f, fixed, has_var, validity) ==
    IF validity.some /\ ~f.nullable THEN ColErr("UnexpectedValidityTile")
    ELSE IF ~validity.some /\ f.nullable THEN ColErr("ExpectedValidityTile")
    ELSE IF has_var THEN ColErr("UnexpectedVarTile")
    ELSE IF validity.some /\ Len(validity.bytes) # Len(fixed) THEN ColPanic
    ELSE [tag |-> "Ok", err |-> "", data_type |-> "UInt8",
          col |-> [i \in 1..Len(fixed) |->
                      IF validity.some /\ validity.bytes[i] = 0 THEN Null ELSE fixed[i]]]

to_arrow_array(f, fixed, has_var, validity) ==
    IF validity.some /\ ~f.nullable THEN ColErr("UnexpectedValidityTile")
    ELSE IF has_var THEN ColErr("UnexpectedVarTile")
    ELSE IF validity.some /\ Len(validity.bytes) # Len(fixed) THEN ColPanic
    ELSE [tag |-> "Ok", err |-> "", data_type |-> "UInt8",
          col |-> [i \in 1..Len(fixed) |->
                      IF validity.some /\ validity.bytes[i] = 0 THEN Null ELSE fixed[i]]]

\* field_to_column that gives an empty column for a missing tile.
field_to_column_empty(f, tile) ==
    LET ptr_tile == tile.tuples[f.name]
    IN  IF ~ptr_tile.some
        THEN [tag |-> "Ok", err |-> "", data_type |-> f.data_type, col |-> <<>>]
        ELSE to_arrow_array(f, ptr_tile.fixed, ptr_tile.has_var, ptr_tile.validity)

\* The closure of to_record_batch: one field of the schema to one column.
field_to_column(f, tile) ==
    LET ptr_tile == tile.tuples[f.name]
    IN  IF ~ptr_tile.some
        THEN [tag |-> "Ok", err |-> "", data_type |-> f.data_type,
              col |-> [i \in 1..tile.cell_num |-> Null]]
        ELSE to_arrow_array(f, ptr_tile.fixed, ptr_tile.has_var, ptr_tile.validity)

\* to_record_batch: the columns of the schema's fields in order, up to the
\* first field that fails; then the asserts on the columns' lengths.
RECURSIVE collect_columns(_, _, _)
collect_columns(names, tile, acc) ==
    IF Len(names) = 0 THEN [tag |-> "Ok", cols |-> acc, err |-> ""]
    ELSE LET c == field_to_column(ArrowField(Head(names)), tile)
         IN  IF c.tag # "Ok" THEN [tag |-> c.tag, cols |-> <<>>, err |-> c.err]
             ELSE collect_columns(Tail(names), tile,
                                  Append(acc, [name |-> Head(names), col |-> c.col,
                                               data_type |-> c.data_type]))

\* to_record_batch without its asserts.
to_record_batch_unchecked(schema, tile) ==
    LET c == collect_columns(schema, tile, <<>>)
    IN  IF c.tag = "Err" THEN RbErr(c.err)
        ELSE IF c.tag = "Panic" THEN RbPanic
        ELSE RbOk(c.cols, tile.cell_num)

to_record_batch(schema, tile) ==
    LET c == collect_columns(schema, tile, <<>>)
    IN  IF c.tag = "Err" THEN RbErr(c.err)
        ELSE IF c.tag = "Panic" THEN RbPanic
        ELSE IF Len(schema) # Len(c.cols) THEN RbPanic
        ELSE IF \E i \in 1..Len(c.cols) : ArrowField(schema[i]).data_type # c.cols[i].data_type
        THEN RbPanic
        ELSE IF \E i \in 1..Len(c.cols) : Len(c.cols[i].col) # tile.cell_num THEN RbPanic
        ELSE RbOk(c.cols, tile.cell_num)

(***************************************************************************)
(* Predicates: tiledb/oxidize/query-predicates/src/lib.rs                  *)
(***************************************************************************)

\* Three-valued booleans of a BooleanArray: Some(true), Some(false), None.
True3 == 1
False3 == 0

Lit(type, v) == Literal([sv |-> type, v |-> v])
Exists == [e |-> "Exists"]
AggregateFunction(name, x) == [e |-> "AggregateFunction", name |-> name, arg |-> x]

\* The predicate texts handed to add_text_predicate, and what parse_sql_expr
\* followed by the type coercion rewrite makes of each.
ParseOk(expr) == [tag |-> "Ok", expr |-> expr]
ParseErr(kind) == [tag |-> "Err", expr |-> NoExpr, err |-> kind]
parse_and_coerce(text) ==
    CASE text = "a < 1" -> ParseOk(BinaryExpr(Column("a"), "Lt", Lit("UInt8", 1)))
      [] text = "a IS NULL" -> ParseOk(IsNull(Column("a")))
      [] text = "b IS NULL" -> ParseOk(IsNull(Column("b")))
      [] text = "TRUE" -> ParseOk(Lit("Boolean", True3))
      [] text = "FALSE" -> ParseOk(Lit("Boolean", False3))
      [] text = "NULL" -> ParseOk(Lit("Null", Null))
      [] text = "1 / a = 1" ->
            ParseOk(BinaryExpr(BinaryExpr(Lit("UInt8", 1), "Divide", Column("a")),
                               "Eq", Lit("UInt8", 1)))
      [] text = "EXISTS (SELECT 1)" -> ParseOk(Exists)
      [] text = "a + 1" -> ParseOk(BinaryExpr(Column("a"), "Plus", Lit("UInt8", 1)))
      [] text = "sum(a) > 1" ->
            ParseOk(BinaryExpr(AggregateFunction("sum", Column("a")), "Gt", Lit("UInt64", 1)))
      [] text = "a <" -> ParseErr("Parse")
      [] text = "a < z" -> ParseErr("Parse")
      [] text = "a AND 1" -> ParseErr("TypeCoercion")

\* Texts that add_text_predicate accepts, and texts it rejects.
GoodTexts == {"a < 1", "NULL", "1 / a = 1", "EXISTS (SELECT 1)"}
BadTexts == {"a + 1", "sum(a) > 1", "a <", "a AND 1"}

CmpOps == {"Lt", "Eq", "Gt"}

\* Expr::get_type against the array's schema.
RECURSIVE get_type(_)
get_type(x) ==
    CASE x.e = "Column" -> "UInt8"
      [] x.e = "Literal" -> x.value.sv
      [] x.e = "IsNull" -> "Boolean"
      [] x.e = "Exists" -> "Boolean"
      [] x.e = "AggregateFunction" -> "UInt64"
      [] x.e = "BinaryExpr" ->
            IF x.op \in CmpOps \cup {"And"} THEN "Boolean" ELSE get_type(x.left)

RECURSIVE has_aggregate_functions(_)
has_aggregate_functions(x) ==
    CASE x.e = "AggregateFunction" -> TRUE
      [] x.e = "BinaryExpr" ->
            has_aggregate_functions(x.left) \/ has_aggregate_functions(x.right)
      [] x.e = "IsNull" -> has_aggregate_functions(x.arg)
      [] OTHER -> FALSE

\* The names of the columns an expression refers to, as it is walked.
RECURSIVE columns(_)
columns(x) ==
    CASE x.e = "Column" -> <<x.name>>
      [] x.e = "BinaryExpr" -> columns(x.left) \o columns(x.right)
      [] x.e = "IsNull" -> columns(x.arg)
      [] x.e = "AggregateFunction" -> columns(x.arg)
      [] OTHER -> <<>>

\* Itertools::unique: the first occurrence of every element, in order.
RECURSIVE unique(_)
unique(xs) ==
    IF Len(xs) = 0 THEN <<>>
    ELSE LET front == unique(SubSeq(xs, 1, Len(xs) - 1))
             x == xs[Len(xs)]
         IN  IF \E i \in 1..Len(front) : front[i] = x THEN front ELSE Append(front, x)

\* Builder::field_names: the columns of all the predicates, each once.
RECURSIVE flat_columns(_)
flat_columns(logical_exprs) ==
    IF Len(logical_exprs) = 0 THEN <<>>
    ELSE columns(Head(logical_exprs)) \o flat_columns(Tail(logical_exprs))

field_names(logical_exprs) == unique(flat_columns(logical_exprs))

QpOk == [tag |-> "Ok", err |-> ""]
QpErr(kind) == [tag |-> "Err", err |-> kind]
QpPanic == [tag |-> "Panic", err |-> "panic"]

\* Builder::add_predicate: Ok with the expression pushed, or the error.
add_predicate(logical_exprs, x) ==
    IF get_type(x) \notin {"Boolean", "Null"}
    THEN [ret |-> QpErr("NotAPredicate"), logical_exprs |-> logical_exprs]
    ELSE IF has_aggregate_functions(x)
    THEN [ret |-> QpErr("ContainsAggregateFunctions"), logical_exprs |-> logical_exprs]
    ELSE [ret |-> QpOk, logical_exprs |-> Append(logical_exprs, x)]

\* Builder::add_text_predicate: parse, coerce, add_predicate.
builder_add_text_predicate(logical_exprs, text) ==
    LET parsed == parse_and_coerce(text)
    IN  IF parsed.tag = "Err"
        THEN [ret |-> QpErr(parsed.err), logical_exprs |-> logical_exprs]
        ELSE add_predicate(logical_exprs, parsed.expr)

\* create_physical_expr: fails on an expression with no physical plan.
RECURSIVE create_physical_expr(_)
create_physical_expr(x) ==
    CASE x.e = "Exists" -> FALSE
      [] x.e = "BinaryExpr" -> create_physical_expr(x.left) /\ create_physical_expr(x.right)
      [] x.e = "IsNull" -> create_physical_expr(x.arg)
      [] OTHER -> TRUE

\* datafusion::physical_expr::conjunction: the literal true for no
\* predicate, else the predicates joined by AND from the left.
RECURSIVE conjunction(_)
conjunction(es) ==
    IF Len(es) = 0 THEN Lit("Boolean", True3)
    ELSE IF Len(es) = 1 THEN es[1]
    ELSE BinaryExpr(conjunction(SubSeq(es, 1, Len(es) - 1)), "And", es[Len(es)])

\* Builder::compile: the Evaluator, or the PhysicalExpr error of the first
\* expression that has no physical form.
builder_compile(logical_exprs) ==
    IF \E i \in 1..Len(logical_exprs) : ~create_physical_expr(logical_exprs[i])
    THEN [ret |-> QpErr("PhysicalExpr"), dfschema |-> <<>>, predicate |-> NoExpr]
    ELSE [ret |-> QpOk, dfschema |-> field_names(logical_exprs),
          predicate |-> conjunction(logical_exprs)]

\* ColumnarValue, or the error or panic an evaluation ends with.
CvScalar(type, v) == [kind |-> "Scalar", type |-> type, v |-> v, a |-> <<>>]
CvArray(type, a) == [kind |-> "Array", type |-> type, v |-> Null, a |-> a]
CvErr(e) == [kind |-> "Err", type |-> e, v |-> Null, a |-> <<>>]
CvPanic == [kind |-> "Panic", type |-> "panic", v |-> Null, a |-> <<>>]
CvNone == [kind |-> "None", type |-> "", v |-> Null, a |-> <<>>]

\* ColumnarValue::into_array(num_rows), as the sequence of its rows.
into_array(cv, num_rows) ==
    IF cv.kind = "Array" THEN cv.a ELSE [i \in 1..num_rows |-> cv.v]

Bool3(b) == IF b THEN True3 ELSE False3

\* One row of a comparison or of a division: NULL when an operand is NULL.
cmp_row(op, x, y) ==
    IF x = Null \/ y = Null THEN Null
    ELSE CASE op = "Lt" -> Bool3(x < y)
           [] op = "Gt" -> Bool3(x > y)
           [] op = "Eq" -> Bool3(x = y)
           [] op = "LtEq" -> Bool3(x <= y)
           [] op = "GtEq" -> Bool3(x >= y)
           [] op = "NotEq" -> Bool3(x # y)

\* One row of AND in Kleene logic.
and_kleene(x, y) ==
    IF x = False3 \/ y = False3 THEN False3
    ELSE IF x = Null \/ y = Null THEN Null
    ELSE True3

\* One row of OR in Kleene logic.
or_kleene(x, y) ==
    IF x = True3 \/ y = True3 THEN True3
    ELSE IF x = Null \/ y = Null THEN Null
    ELSE False3

\* One row of NOT: NULL stays NULL.
not_row(x) == IF x = Null THEN Null ELSE 1 - x

\* The column `name` of a record batch.
column_of(rb, name) ==
    LET i == CHOOSE i \in 1..Len(rb.cols) : rb.cols[i].name = name IN rb.cols[i].col

\* What the engine does with an AND before it evaluates the right operand:
\* nothing ("never"); return the left operand when it is an array of false
\* only ("left"); or also when it is the scalar false, and return the right
\* operand as it is when the left one is true everywhere ("both").
ShortCircuits == {"never", "left", "both"}
all_false(l, short_circuit) ==
    \/ /\ short_circuit \in {"left", "both"}
       /\ l.kind = "Array" /\ l.type = "Boolean" /\ \A i \in 1..Len(l.a) : l.a[i] = False3
    \/ /\ short_circuit = "both"
       /\ l.kind = "Scalar" /\ l.type = "Boolean" /\ l.v = False3
all_true(l, short_circuit) ==
    /\ short_circuit = "both"
    /\ l.type = "Boolean"
    /\ IF l.kind = "Array" THEN \A i \in 1..Len(l.a) : l.a[i] = True3 ELSE l.v = True3

\* The same for an OR, whose left operand decides when it is true.
or_all_true(l, short_circuit) ==
    \/ /\ short_circuit \in {"left", "both"}
       /\ l.kind = "Array" /\ l.type = "Boolean" /\ \A i \in 1..Len(l.a) : l.a[i] = True3
    \/ /\ short_circuit = "both"
       /\ l.kind = "Scalar" /\ l.type = "Boolean" /\ l.v = True3
or_all_false(l, short_circuit) ==
    /\ short_circuit = "both"
    /\ l.type = "Boolean"
    /\ IF l.kind = "Array" THEN \A i \in 1..Len(l.a) : l.a[i] = False3 ELSE l.v = False3

\* PhysicalExpr::evaluate on a record batch.
RECURSIVE evaluate_expr(_, _, _)
evaluate_expr(x, rb, short_circuit) ==
    CASE x.e = "Column" -> CvArray("UInt8", column_of(rb, x.name))
      [] x.e = "Literal" -> CvScalar(x.value.sv, x.value.v)
      [] x.e = "IsNull" ->
            LET c == evaluate_expr(x.arg, rb, short_circuit)
            IN  IF c.kind \in {"Err", "Panic"} THEN c
                ELSE IF c.kind = "Scalar" THEN CvScalar("Boolean", Bool3(c.v = Null))
                ELSE CvArray("Boolean", [i \in 1..Len(c.a) |-> Bool3(c.a[i] = Null)])
      [] x.e = "IsNotNull" ->
            LET c == evaluate_expr(x.arg, rb, short_circuit)
            IN  IF c.kind \in {"Err", "Panic"} THEN c
                ELSE IF c.kind = "Scalar" THEN CvScalar("Boolean", Bool3(c.v # Null))
                ELSE CvArray("Boolean", [i \in 1..Len(c.a) |-> Bool3(c.a[i] # Null)])
      [] x.e = "Not" ->
            LET c == evaluate_expr(x.arg, rb, short_circuit)
            IN  IF c.kind \in {"Err", "Panic"} THEN c
                ELSE IF c.type # "Boolean" THEN CvErr("Evaluate")
                ELSE IF c.kind = "Scalar" THEN CvScalar("Boolean", not_row(c.v))
                ELSE CvArray("Boolean", [i \in 1..Len(c.a) |-> not_row(c.a[i])])
      [] x.e = "BinaryExpr" ->
            LET l == evaluate_expr(x.left, rb, short_circuit)
            IN  IF l.kind \in {"Err", "Panic"} THEN l
                ELSE IF x.op = "And" /\ all_false(l, short_circuit) THEN l
                ELSE IF x.op = "And" /\ all_true(l, short_circuit)
                THEN evaluate_expr(x.right, rb, short_circuit)
                ELSE IF x.op = "Or" /\ or_all_true(l, short_circuit) THEN l
                ELSE IF x.op = "Or" /\ or_all_false(l, short_circuit)
                THEN evaluate_expr(x.right, rb, short_circuit)
                ELSE
                LET r == evaluate_expr(x.right, rb, short_circuit)
                    la == into_array(l, rb.num_rows)
                    ra == into_array(r, rb.num_rows)
                IN  IF r.kind \in {"Err", "Panic"} THEN r
                    ELSE IF x.op = "And"
                    THEN IF l.type # "Boolean" THEN CvErr("Evaluate")
                         ELSE IF r.type # "Boolean" THEN CvPanic
                         ELSE CvArray("Boolean",
                                      [i \in 1..rb.num_rows |-> and_kleene(la[i], ra[i])])
                    ELSE IF x.op = "Or"
                    THEN IF l.type # "Boolean" THEN CvErr("Evaluate")
                         ELSE IF r.type # "Boolean" THEN CvPanic
                         ELSE CvArray("Boolean",
                                      [i \in 1..rb.num_rows |-> or_kleene(la[i], ra[i])])
                    ELSE IF x.op = "Divide"
                    THEN IF \E i \in 1..rb.num_rows : la[i] # Null /\ ra[i] = 0
                         THEN CvErr("Evaluate")
                         ELSE CvArray(l.type,
                                      [i \in 1..rb.num_rows |->
                                          IF la[i] = Null \/ ra[i] = Null THEN Null
                                          ELSE la[i] \div ra[i]])
                    ELSE IF l.kind = "Scalar" /\ r.kind = "Scalar"
                    THEN CvScalar("Boolean", cmp_row(x.op, l.v, r.v))
                    ELSE CvArray("Boolean",
                                 [i \in 1..rb.num_rows |-> cmp_row(x.op, la[i], ra[i])])

\* Evaluator::evaluate: the tile as a record batch, then the predicate.
evaluate_batch(evaluator, rb, short_circuit) ==
    IF rb.tag = "Err" THEN CvErr("ResultTile")
    ELSE IF rb.tag = "Panic" THEN CvPanic
    ELSE evaluate_expr(evaluator.predicate, rb, short_circuit)

evaluator_evaluate(evaluator, tile, short_circuit) ==
    evaluate_batch(evaluator, to_record_batch(evaluator.dfschema, tile), short_circuit)

\* The bitmap with every entry zero.
fill_one(bm) == [i \in 1..Len(bm) |-> 1]
fill_zero(bm) == [i \in 1..Len(bm) |-> 0]

\* The loop over an array result: entry i is zeroed unless row i is
\* Some(true); writing past the end of the bitmap panics, after the rows
\* before it have been written.
keep_if_null(b) == b # False3
keep_if_true(b) == b = True3
reduce_array_widening(bm, bools) ==
    [bitmap |-> [i \in 1..Len(bm) |->
                    IF i <= Len(bools) /\ keep_if_true(bools[i]) THEN 1 ELSE 0],
     ret |-> QpOk]
reduce_array(bm, bools) ==
    [bitmap |-> [i \in 1..Len(bm) |->
                    IF i <= Len(bools) /\ ~keep_if_true(bools[i]) THEN 0 ELSE bm[i]],
     ret |-> IF \E i \in 1..Len(bools) : i > Len(bm) /\ ~keep_if_true(bools[i])
             THEN QpPanic ELSE QpOk]

\* Evaluator::evaluate_into_bitmap: the bitmap afterwards and what the
\* call returned; `result` is what the evaluation produced.
reduce_into_bitmap(result, bm) ==
    CASE result.kind = "Err" -> [bitmap |-> bm, ret |-> QpErr(result.type)]
      [] result.kind = "Panic" -> [bitmap |-> bm, ret |-> QpPanic]
      [] result.kind = "Scalar" ->
            IF result.type = "Boolean" /\ result.v = True3
            THEN [bitmap |-> bm, ret |-> QpOk]
            ELSE IF result.type = "Boolean" /\ result.v = False3
            THEN [bitmap |-> fill_zero(bm), ret |-> QpOk]
            ELSE IF result.type = "Null" \/ (result.type = "Boolean" /\ result.v = Null)
            THEN [bitmap |-> fill_zero(bm), ret |-> QpOk]
            ELSE [bitmap |-> bm, ret |-> QpPanic]
      [] result.kind = "Array" ->
            IF result.type = "Boolean" THEN reduce_array(bm, result.a)
            ELSE IF result.type = "Null"
            THEN [bitmap |-> fill_zero(bm), ret |-> QpOk]
            ELSE [bitmap |-> bm, ret |-> QpPanic]

OffIdle ==
    /\ off_fn = "" /\ off_vs = 1 /\ off_nv = 0
    /\ off_buf = [misalign |-> 0, words |-> <<>>, tail |-> 0]
    /\ off_out = OffOk(<<>>)

TrIdle == tr_ast = LeafLt /\ tr_out = TrNone
\* QueryPredicates::new: the Build state with no predicate; and the
\* Evaluate state a successful compile leaves.
Build(logical_exprs) ==
    [state |-> "Build", logical_exprs |-> logical_exprs, dfschema |-> <<>>,
     predicate |-> NoExpr]
Evaluate(dfschema, predicate) ==
    [state |-> "Evaluate", logical_exprs |-> <<>>, dfschema |-> dfschema,
     predicate |-> predicate]

Hist(op, bitmap0, compiles) == [op |-> op, bitmap0 |-> bitmap0, compiles |-> compiles]

QpIdle ==
    /\ qp = Build(<<>>) /\ bitmap = <<>> /\ qp_ret = QpOk
    /\ qp_hist = Hist("", <<>>, 0)
RedIdle == red_in = <<>> /\ red_pc = 0 /\ red_out = <<>>
CIdle ==
    /\ c_pred = Build(<<>>) /\ c_pc = <<>> /\ c_tile = <<>> /\ c_bm = <<>>
    /\ c_bm0 = <<>> /\ c_rb = <<>> /\ c_res = <<>>
RbNone == [tag |-> "None", num_rows |-> 0, cols |-> <<>>, err |-> ""]
RbIdle == rb_schema = <<>> /\ rb_tile = ResultTile(0, NoTuple) /\ rb_out = RbNone
(***************************************************************************)
(* IteratorExt::append: tiledb/oxidize/iterator-ext/src/append.rs          *)
(***************************************************************************)
MaxItems == 3
MaxLate == 2

\* Option<I> and Option<I::Item>; the underlying iterator is the sequence of
\* the elements it has still to yield.
SomeIter(a) == [some |-> TRUE, v |-> a]
NoIter == [some |-> FALSE, v |-> <<>>]
SomeItem(b) == [some |-> TRUE, v |-> b]
NoItem == [some |-> FALSE, v |-> 0]

\* Append::new
new(a, b) == [a |-> SomeIter(a), b |-> SomeItem(b)]

\* Append::next that returns b without taking it.
next_keeps_b(self) ==
    IF self.a.some /\ Len(self.a.v) > 0
    THEN [self |-> [self EXCEPT !.a = SomeIter(Tail(self.a.v))],
          ret |-> SomeItem(Head(self.a.v))]
    ELSE [self |-> [self EXCEPT !.a = NoIter], ret |-> self.b]

\* Append::next: the updated struct and the returned Option.
next(self) ==
    IF self.a.some /\ Len(self.a.v) > 0
    THEN [self |-> [self EXCEPT !.a = SomeIter(Tail(self.a.v))],
          ret |-> SomeItem(Head(self.a.v))]
    ELSE [self |-> [self EXCEPT !.a = NoIter, !.b = NoItem], ret |-> self.b]

\* Append::size_hint: (lower, upper), or the panic of unreachable!.
size_hint(self) ==
    CASE self.a.some /\ self.b.some ->
            [panic |-> FALSE, lower |-> Len(self.a.v) + 1,
             upper |-> SomeItem(Len(self.a.v) + 1)]
      [] self.a.some /\ ~self.b.some -> [panic |-> TRUE, lower |-> 0, upper |-> NoItem]
      [] ~self.a.some /\ self.b.some -> [panic |-> FALSE, lower |-> 1, upper |-> SomeItem(1)]
      [] OTHER -> [panic |-> FALSE, lower |-> 0, upper |-> SomeItem(0)]

\* ExactSizeIterator::len: the lower bound, after asserting that the upper
\* bound is the same.
len(self) ==
    LET h == size_hint(self)
    IN  IF h.panic \/ h.upper # SomeItem(h.lower)
        THEN [panic |-> TRUE, n |-> 0]
        ELSE [panic |-> FALSE, n |-> h.lower]

ItRet(op, ret) == [op |-> op, ret |-> ret]
ItIdle ==
    /\ it_src = <<>> /\ it_value = 0 /\ it = new(<<>>, 0) /\ it_hist = <<>>
    /\ it_ret = ItRet("", NoItem)

(***************************************************************************)
(* Checked arithmetic: oxidize/arithmetic/src/lib.rs and                   *)
(* test/support/oxidize/cxx_rust_std/src/lib.rs                            *)
(***************************************************************************)
\* An integer of the program is held at its width, as the sequence of its
\* 16-bit limbs in two's complement, the least significant first.
Base == 256 * 256
Half == Base \div 2

\* The integer types: the number of limbs and whether the type is signed.
U32 == [limbs |-> 2, signed |-> FALSE]
I32 == [limbs |-> 2, signed |-> TRUE]
U64 == [limbs |-> 4, signed |-> FALSE]
I64 == [limbs |-> 4, signed |-> TRUE]
I128 == [limbs |-> 8, signed |-> TRUE]

\* The adder: x + y + c limb by limb, the wrapped sum and the carry out.
RECURSIVE carrying_add(_, _, _)
carrying_add(x, y, c) ==
    IF Len(x) = 0 THEN [r |-> <<>>, c |-> c]
    ELSE LET s == x[1] + y[1] + c
             rest == carrying_add(Tail(x), Tail(y), s \div Base)
         IN  [r |-> <<s % Base>> \o rest.r, c |-> rest.c]

\* x - y as x + !y + 1: the wrapped difference and the borrow out.
borrowing_sub(x, y) ==
    LET s == carrying_add(x, [i \in 1..Len(y) |-> Base - 1 - y[i]], 1)
    IN  [r |-> s.r, b |-> 1 - s.c]

\* The sign bit of a value of type T.
is_negative(T, x) == T.signed /\ x[Len(x)] >= Half

SomeInt(x) == [some |-> TRUE, v |-> x]
NoInt == [some |-> FALSE, v |-> <<>>]

\* checked_add whose signed case tests the carry as the unsigned one does.
checked_add_by_carry(T, a, b) ==
    LET s == carrying_add(a, b, 0)
    IN  IF s.c = 1 THEN NoInt ELSE SomeInt(s.r)

\* T::checked_add: None on overflow.  Unsigned overflow is a carry out of the
\* top bit; a signed sum overflows when the operands have the same sign and
\* the wrapped sum has the other one.
checked_add(T, a, b) ==
    LET s == carrying_add(a, b, 0)
    IN  IF T.signed
        THEN IF /\ is_negative(T, a) = is_negative(T, b)
                /\ is_negative(T, s.r) # is_negative(T, a)
             THEN NoInt ELSE SomeInt(s.r)
        ELSE IF s.c = 1 THEN NoInt ELSE SomeInt(s.r)

\* T::checked_sub: None on overflow.  Unsigned overflow is a borrow; a signed
\* difference overflows when the operands differ in sign and the wrapped
\* difference has the sign of the subtrahend.
checked_sub(T, a, b) ==
    LET s == borrowing_sub(a, b)
    IN  IF T.signed
        THEN IF /\ is_negative(T, a) # is_negative(T, b)
                /\ is_negative(T, s.r) # is_negative(T, a)
             THEN NoInt ELSE SomeInt(s.r)
        ELSE IF s.b = 1 THEN NoInt ELSE SomeInt(s.r)

\* The returned bool and what `out` holds after the call.
ArRes(ret, out) == [ret |-> ret, out |-> out]

do_checked_add(T, a, b, out) ==
    LET result == checked_add(T, a, b)
    IN  IF result.some THEN ArRes("true", result.v) ELSE ArRes("false", out)

do_checked_sub(T, a, b, out) ==
    LET result == checked_sub(T, a, b)
    IN  IF result.some THEN ArRes("true", result.v) ELSE ArRes("false", out)

\* `x as i128` of a value of type T: zero extension, or sign extension.
as_i128(T, x) ==
    x \o [i \in 1..(I128.limbs - Len(x)) |-> IF is_negative(T, x) THEN Base - 1 ELSE 0]

\* i64::try_from of an i128: the low 64 bits when the value is their sign
\* extension.
i64_try_from(x) ==
    LET low == SubSeq(x, 1, I64.limbs)
    IN  IF as_i128(I64, low) = x THEN SomeInt(low) ELSE NoInt

\* The subtraction through i128 of u64_checked_sub_signed and of the two
\* functions of cxx_rust_std; T is the type of a and b, out is an i64.
checked_sub_i128(T, a, b, out) ==
    LET d == checked_sub(I128, as_i128(T, a), as_i128(T, b))
    IN  IF d.some /\ i64_try_from(d.v).some
        THEN ArRes("true", i64_try_from(d.v).v) ELSE ArRes("false", out)

u64_checked_sub_signed(a, b, out) == checked_sub_i128(U64, a, b, out)

\* The exported functions: the operation, the type of a and b, and the type
\* of out.
ArFns ==
    [u32_checked_add |-> [op |-> "add", T |-> U32, O |-> U32],
     i32_checked_add |-> [op |-> "add", T |-> I32, O |-> I32],
     u64_checked_add |-> [op |-> "add", T |-> U64, O |-> U64],
     i64_checked_add |-> [op |-> "add", T |-> I64, O |-> I64],
     u32_checked_sub |-> [op |-> "sub", T |-> U32, O |-> U32],
     i32_checked_sub |-> [op |-> "sub", T |-> I32, O |-> I32],
     u64_checked_sub |-> [op |-> "sub", T |-> U64, O |-> U64],
     i64_checked_sub |-> [op |-> "sub", T |-> I64, O |-> I64],
     u64_checked_sub_signed |-> [op |-> "sub_i128", T |-> U64, O |-> I64],
     std_u64_checked_sub |-> [op |-> "sub_i128", T |-> U64, O |-> I64],
     std_i64_checked_sub |-> [op |-> "sub_i128", T |-> I64, O |-> I64]]

\* A call of the function named fn.
ar_call_fn(fn, a, b, out) ==
    CASE ArFns[fn].op = "add" -> do_checked_add(ArFns[fn].T, a, b, out)
      [] ArFns[fn].op = "sub" -> do_checked_sub(ArFns[fn].T, a, b, out)
      [] fn = "u64_checked_sub_signed" -> u64_checked_sub_signed(a, b, out)
      [] OTHER -> checked_sub_i128(ArFns[fn].T, a, b, out)

ArNone == ArRes("", <<>>)
ArIdle ==
    /\ ar_call = [fn |-> "", a |-> <<>>, b |-> <<>>, out |-> <<>>]
    /\ ar_res = ArNone

ColNone == [tag |-> "None", col |-> <<>>, err |-> "", data_type |-> ""]
AaIdle == aa_f = ArrowField("a") /\ aa_tile = NoTuple /\ aa_out = ColNone

QcNone == [tag |-> "None", bytes |-> <<>>, err |-> ""]
QcIdle == qc_ast = LeafLt /\ qc_tile = <<>> /\ qc_out = QcNone

InitOff ==
    /\ off_fn = ""
    /\ off_vs \in ValueSizes
    /\ off_buf \in OffsetBufs
    /\ off_nv \in 0..MaxOff
    /\ off_out = OffOk(<<>>)
    /\ TrIdle /\ QpIdle /\ RedIdle /\ CIdle /\ RbIdle /\ QcIdle /\ ItIdle /\ AaIdle /\ ArIdle

CallTryFromBytes ==
    /\ off_fn = ""
    /\ off_fn' = "try_from_bytes"
    /\ off_out' = try_from_bytes(off_vs, off_buf)
    /\ UNCHANGED <<off_vs, off_buf, off_nv, trVars, qpVars, redVars, cVars, rbVars, qcVars, itVars, aaVars, arVars>>

CallTryFromBytesAndNumValues ==
    /\ off_fn = ""
    /\ off_fn' = "try_from_bytes_and_num_values"
    /\ off_out' = try_from_bytes_and_num_values(off_vs, off_buf, off_nv)
    /\ UNCHANGED <<off_vs, off_buf, off_nv, trVars, qpVars, redVars, cVars, rbVars, qcVars, itVars, aaVars, arVars>>

NextOff == CallTryFromBytes \/ CallTryFromBytesAndNumValues

SpecOff == InitOff /\ [][NextOff]_vars

\* C5: when try_from_bytes_and_num_values succeeds on a buffer of N raw offsets,
\* it returns N+1 non-decreasing offsets, the last one being num_values and the
\* first N being the raw offsets divided by value_size.
C5_AppendsNumValues ==
    (off_fn = "try_from_bytes_and_num_values" /\ off_out.tag = "Ok") =>
        LET n == Len(off_buf.words)
            out == off_out.offsets
        IN  /\ Len(out) = n + 1
            /\ \A i \in 1..n : out[i] <= out[i + 1]
            /\ out[n + 1] = off_nv
            /\ \A i \in 1..n : out[i] * off_vs = off_buf.words[i]


\* The raw offsets a call converts: the i64 values of an aligned buffer of
\* whole values, with num_values appended by try_from_bytes_and_num_values.
Aligned(bytes) == bytes.misalign = 0 /\ bytes.tail = 0
RawOffsets ==
    IF off_fn = "try_from_bytes_and_num_values"
    THEN Append(off_buf.words, off_nv) ELSE off_buf.words
AllIntegral(raw) == \A i \in 1..Len(raw) : raw[i] % off_vs = 0
NonDecreasing(raw) == \A i \in 1..(Len(raw) - 1) : raw[i] <= raw[i + 1]

\* C16: for N >= 1 raw byte offsets that are non-negative, non-decreasing and
\* multiples of value_size, try_from_bytes succeeds and returns exactly N
\* offsets with out[i] = raw[i] / value_size, so out[i] * value_size = raw[i].
C16_RoundTrip ==
    LET raw == off_buf.words
    IN  (/\ off_fn = "try_from_bytes" /\ Aligned(off_buf)
         /\ Len(raw) >= 1 /\ AllIntegral(raw) /\ NonDecreasing(raw)
         /\ \A i \in 1..Len(raw) : raw[i] >= 0) =>
            /\ off_out.tag = "Ok"
            /\ Len(off_out.offsets) = Len(raw)
            /\ \A i \in 1..Len(raw) :
                  /\ off_out.offsets[i] = raw[i] \div off_vs
                  /\ off_out.offsets[i] * off_vs = raw[i]

C16_Witness ==
    /\ off_fn = "try_from_bytes" /\ Aligned(off_buf) /\ off_vs = 2
    /\ off_buf.words = <<2, 4>> /\ off_out = OffOk(<<1, 2>>)

\* C17: for a buffer that align_to takes as i64 values with no prefix and
\* no suffix (the claim speaks of a sequence of offsets): when every raw
\* offset is a multiple of value_size and the first is non-negative but the converted sequence is not non-decreasing, the
\* conversion fails with DescendingOffsets(i, a, b), i the smallest index
\* (from 0) with out[i] > out[i+1], a = out[i] and b = out[i+1], in elements.
C17_DescendingOffsets ==
    LET raw == RawOffsets
        out == [i \in 1..Len(raw) |-> raw[i] \div off_vs]
        desc == {i \in 1..(Len(raw) - 1) : out[i] > out[i + 1]}
    IN  (/\ off_fn # "" /\ Aligned(off_buf) /\ Len(raw) >= 1 /\ AllIntegral(raw)
         /\ raw[1] >= 0 /\ desc # {}) =>
            LET i == CHOOSE i \in desc : \A k \in desc : i <= k
            IN  off_out = OffErr("DescendingOffsets", <<i - 1, out[i], out[i + 1]>>)

C17_Witness ==
    /\ off_fn = "try_from_bytes_and_num_values" /\ Aligned(off_buf) /\ off_vs = 2
    /\ off_buf.words = <<0, 4>> /\ off_nv = 2
    /\ off_out = OffErr("DescendingOffsets", <<1, 2, 1>>)

\* C25: the conversion is total: for every byte buffer, the empty one
\* included, and every value_size >= 1 a call returns an offsets buffer or
\* one of the four errors, and never panics.
C25_Total ==
    off_fn # "" =>
        \/ off_out.tag = "Ok"
        \/ /\ off_out.tag = "Err"
           /\ off_out.err \in {"NonIntegralOffsets", "UnalignedOffsets", "NegativeOffset",
                               "DescendingOffsets"}

\* The first defect of the offsets `raw` in the order non-integral, negative
\* first offset, descending pair; "" when there is none.
FirstDefect(raw) ==
    IF ~AllIntegral(raw) THEN "NonIntegralOffsets"
    ELSE IF Len(raw) >= 1 /\ raw[1] < 0 THEN "NegativeOffset"
    ELSE IF ~NonDecreasing(raw) THEN "DescendingOffsets"
    ELSE ""

\* What a call is to return for the defect: that error, NegativeOffset with
\* the first offset in elements.
ReportsDefect(raw) ==
    FirstDefect(raw) # "" =>
        /\ off_out.tag = "Err" /\ off_out.err = FirstDefect(raw)
        /\ FirstDefect(raw) = "NegativeOffset" => off_out.args = <<raw[1] \div off_vs>>

\* C26 as stated: a buffer whose length is no multiple of 8 bytes gives
\* UnalignedOffsets; every other buffer gives the error of the first defect
\* of its offsets (the appended total included) in the order non-integral,
\* negative first offset, descending pair.
C26_DefectOrderByLength ==
    off_fn # "" =>
        IF BufLen(off_buf) % I64Bytes # 0
        THEN off_out = OffErr("UnalignedOffsets", <<>>)
        ELSE ReportsDefect(RawOffsets)

\* C26, amended: UnalignedOffsets is given for a buffer whose length is no
\* multiple of 8 bytes and also for a non-empty buffer that does not start at
\* an 8-byte boundary; every other buffer gives the error of the first defect
\* of its offsets in the order non-integral, negative first offset,
\* descending pair.
C26_DefectOrder ==
    off_fn # "" =>
        IF BufLen(off_buf) % I64Bytes # 0 \/ (off_buf.misalign # 0 /\ BufLen(off_buf) > 0)
        THEN off_out = OffErr("UnalignedOffsets", <<>>)
        ELSE ReportsDefect(RawOffsets)

\* C26 happens: offsets that are non-integral, start negative and descend
\* are reported as NonIntegralOffsets.
C26_Witness ==
    /\ off_fn = "try_from_bytes" /\ Aligned(off_buf) /\ off_vs = 2
    /\ off_buf.words = <<-1, -2>>
    /\ off_out = OffErr("NonIntegralOffsets", <<>>)

(***************************************************************************)
(* Specification of the translator: one query condition, one call.         *)
(***************************************************************************)
InitTr ==
    /\ \/ tr_ast \in PlainLeaves(FieldNames)
       \/ tr_ast \in SetLeaves({"d", "f", "v", "w", "x"})
       \/ tr_ast \in FlatCombs(CombinationOps)
       \/ tr_ast \in NestedCombs(CombinationOps)
    /\ tr_out = TrNone
    /\ OffIdle /\ QpIdle /\ RedIdle /\ CIdle /\ RbIdle /\ QcIdle /\ ItIdle /\ AaIdle /\ ArIdle

CallToDatafusion ==
    /\ tr_out.tag = "None"
    /\ tr_out' = to_datafusion(ArraySchema, tr_ast)
    /\ UNCHANGED <<tr_ast, offVars, qpVars, redVars, cVars, rbVars, qcVars, itVars, aaVars, arVars>>

NextTr == CallToDatafusion

SpecTr == InitTr /\ [][NextTr]_vars

\* The translations of the children of a node, each translated on its own.
ChildExprs(ast) ==
    [i \in 1..Len(ast.children) |-> to_datafusion_impl(ArraySchema, ast.children[i]).expr]

CombOperator(ast) == IF ast.combination_op = "AND" THEN "And" ELSE "Or"

\* (((c0 op c1) op c2) ... op c(n-1))
RECURSIVE LeftNested(_, _)
LeftNested(cs, operator) ==
    IF Len(cs) = 1 THEN cs[1]
    ELSE BinaryExpr(LeftNested(SubSeq(cs, 1, Len(cs) - 1), operator), operator, cs[Len(cs)])

\* The largest power of two below n, n >= 2.
RECURSIVE PowerBelow(_, _)
PowerBelow(n, p) == IF 2 * p < n THEN PowerBelow(n, 2 * p) ELSE p

\* The balanced tree over cs: split at the largest power of two below Len(cs).
RECURSIVE Balanced(_, _)
Balanced(cs, operator) ==
    IF Len(cs) = 1 THEN cs[1]
    ELSE LET m == PowerBelow(Len(cs), 1)
         IN  BinaryExpr(Balanced(SubSeq(cs, 1, m), operator), operator,
                        Balanced(SubSeq(cs, m + 1, Len(cs)), operator))

IsAndOr(ast) == ast.is_expr /\ ast.combination_op \in {"AND", "OR"}

\* C4 as claimed: an AND/OR node with n >= 2 children translates to the
\* left-nested fold of its children's translations, for every n.
C4_LeftNestedFold ==
    (tr_out.tag = "Ok" /\ IsAndOr(tr_ast) /\ Len(tr_ast.children) >= 2) =>
        tr_out.expr = LeftNested(ChildExprs(tr_ast), CombOperator(tr_ast))

\* C4 as amended: an AND/OR node with n >= 2 children translates to the
\* pairwise (balanced) reduction of its children's translations in their
\* original order, split at the largest power of two below n; for n <= 3
\* this is the left-nested fold.
C4_PairwiseFold ==
    (tr_out.tag = "Ok" /\ IsAndOr(tr_ast) /\ Len(tr_ast.children) >= 2) =>
        /\ tr_out.expr = Balanced(ChildExprs(tr_ast), CombOperator(tr_ast))
        /\ Len(tr_ast.children) <= 3 =>
              tr_out.expr = LeftNested(ChildExprs(tr_ast), CombOperator(tr_ast))

C4_Witness ==
    /\ tr_out.tag = "Ok" /\ IsAndOr(tr_ast)
    /\ tr_ast.children = <<LeafLt, LeafNull, LeafGe, LeafLt>>
    /\ tr_out.expr # LeftNested(ChildExprs(tr_ast), CombOperator(tr_ast))

IsNot(ast) == ast.is_expr /\ ast.combination_op = "NOT"

\* C10: a NOT node with exactly one child translates to the negation of the
\* child's translation (or fails as the child fails); with 0 or with 2 or more
\* children it fails with InternalError::NotTree(count), count the number of
\* children, and no child is translated.
C10_NotTree ==
    (tr_out.tag # "None" /\ IsNot(tr_ast)) =>
        LET n == Len(tr_ast.children)
        IN  IF n = 1
            THEN LET c == to_datafusion_impl(ArraySchema, tr_ast.children[1])
                 IN  /\ c.tag = "Ok" => tr_out.tag = "Ok" /\ tr_out.expr = NotExpr(c.expr)
                     /\ c.tag # "Ok" => tr_out.tag = c.tag /\ tr_out.err = c.err
                     /\ tr_out.calls = 1 + c.calls
            ELSE /\ tr_out.tag = "Err"
                 /\ tr_out.err = [kind |-> "Internal", name |-> "NotTree", args |-> <<n>>]
                 /\ tr_out.calls = 1

C10_Witness ==
    /\ IsNot(tr_ast) /\ Len(tr_ast.children) = 2
    /\ tr_out.tag = "Err" /\ tr_out.err.name = "NotTree" /\ tr_out.err.args = <<2>>


\* A leaf that has been translated, and one whose field the schema has.
LeafDone == tr_out.tag # "None" /\ ~tr_ast.is_expr
KnownLeafDone == LeafDone /\ tr_ast.field_name \in DOMAIN ArraySchema

\* C11: for a leaf on a field of the schema, an empty payload with EQ
\* translates to IS NULL(field) and with NE to IS NOT NULL(field); ALWAYS_TRUE
\* translates to IS NOT NULL(field) when the field is nullable and to the
\* literal true when it is not, with an empty payload and with any other.
C11_NullTestPolicy ==
    KnownLeafDone =>
        LET column == Column(tr_ast.field_name)
        IN  /\ (tr_ast.data = <<>> /\ tr_ast.op = "EQ") => tr_out = TrOk(IsNull(column), 1)
            /\ (tr_ast.data = <<>> /\ tr_ast.op = "NE") => tr_out = TrOk(IsNotNull(column), 1)
            /\ tr_ast.op = "ALWAYS_TRUE" =>
                  tr_out = IF ArraySchema[tr_ast.field_name].nullable
                           THEN TrOk(IsNotNull(column), 1)
                           ELSE TrOk(Literal(SvBoolean(TRUE)), 1)

C11_Witness ==
    /\ KnownLeafDone /\ tr_ast.op = "ALWAYS_TRUE" /\ tr_ast.data = <<>>
    /\ tr_ast.field_name = "n" /\ tr_out.expr = IsNotNull(Column("n"))


\* C12 as claimed: a leaf with operator ALWAYS_FALSE translates to the literal
\* false for every field name, in the schema or not, and every payload.
C12_AlwaysFalse ==
    (LeafDone /\ tr_ast.op = "ALWAYS_FALSE") => tr_out = TrOk(Literal(SvBoolean(FALSE)), 1)

\* C12 as amended: a leaf with operator ALWAYS_FALSE on a field of the schema
\* translates to the literal false, for every payload, empty or not.
C12_AlwaysFalseKnownField ==
    (KnownLeafDone /\ tr_ast.op = "ALWAYS_FALSE") =>
        tr_out = TrOk(Literal(SvBoolean(FALSE)), 1)

C12_Witness ==
    /\ KnownLeafDone /\ tr_ast.op = "ALWAYS_FALSE" /\ tr_ast.data # <<>>
    /\ tr_ast.field_name = "n" /\ tr_out.expr = Literal(SvBoolean(FALSE))


\* C13: translating a leaf whose field name is no field of the schema fails
\* with UserError::UnknownField carrying that name, for every operator of
\* QueryConditionOp and every payload.
C13_UnknownField ==
    (LeafDone /\ tr_ast.field_name \notin DOMAIN ArraySchema /\ tr_ast.op # "INVALID") =>
        tr_out = TrErr("User", "UnknownField", <<tr_ast.field_name>>, 1)


\* The variants of UserError and InternalError that hold a field name, which
\* is their first component; the others hold datatypes, arities and counts.
NamesField(err, name) ==
    err.name \in {"UnknownField", "SchemaField"} /\ err.args[1] = name

\* C14: every error of translating a leaf (payload size mismatch, cell-arity
\* mismatch, arity out of range, malformed set-membership offsets, invalid
\* datatype or operator discriminant) identifies the leaf's field by name.
C14_ErrorNamesField ==
    (LeafDone /\ tr_out.tag = "Err") => NamesField(tr_out.err, tr_ast.field_name)


\* The nodes of an AST in left-to-right, depth-first order.
RECURSIVE PreOrder(_)
RECURSIVE PreOrderAll(_)
PreOrder(ast) == <<ast>> \o PreOrderAll(ast.children)
PreOrderAll(children) ==
    IF Len(children) = 0 THEN <<>>
    ELSE PreOrder(Head(children)) \o PreOrderAll(Tail(children))

\* The error of a node by itself, its children aside: of a leaf the error of
\* its translation, of a combination node the error of its operator or of its
\* number of children.  NoErr when it has none.
OwnError(node) ==
    IF ~node.is_expr
    THEN to_datafusion_impl(ArraySchema, node).err
    ELSE CASE node.combination_op \in {"AND", "OR"} -> NoErr
           [] node.combination_op = "NOT" ->
                IF Len(node.children) = 1 THEN NoErr
                ELSE [kind |-> "Internal", name |-> "NotTree",
                      args |-> <<Len(node.children)>>]
           [] OTHER -> [kind |-> "Internal", name |-> "InvalidCombinationOp",
                        args |-> <<node.combination_op>>]

\* The error of the first node, in left-to-right depth-first order, that has one.
FirstError(ast) ==
    LET nodes == PreOrder(ast)
        failing == {i \in 1..Len(nodes) : OwnError(nodes[i]) # NoErr}
    IN  IF failing = {} THEN NoErr
        ELSE OwnError(nodes[CHOOSE i \in failing : \A k \in failing : i <= k])

\* C15: translation is all-or-nothing.  When to_datafusion returns an error
\* it returns no expression, and the error is that of the first failing node
\* in left-to-right, depth-first order; when it returns an expression no
\* node of the AST fails and every node was translated.  So an AST with a
\* failing node never gives an expression.
C15_AllOrNothing ==
    /\ tr_out.tag = "Err" =>
          /\ tr_out.expr = NoExpr
          /\ tr_out.err = FirstError(tr_ast)
    /\ tr_out.tag = "Ok" =>
          /\ tr_out.expr # NoExpr /\ tr_out.err = NoErr
          /\ FirstError(tr_ast) = NoErr
          /\ tr_out.calls = Len(PreOrder(tr_ast))

C15_Witness ==
    /\ tr_ast = Comb("AND", <<LeafLt, LeafMismatch, LeafUnknown>>)
    /\ tr_out.tag = "Err" /\ tr_out.expr = NoExpr
    /\ tr_out.err.name = "CellValNumMismatch"


\* A translated comparison leaf with a non-empty payload on a field of the
\* schema whose datatype is one of Datatype.
ComparisonDone ==
    /\ KnownLeafDone /\ tr_ast.data # <<>>
    /\ tr_ast.op \in {"LT", "LE", "GT", "GE", "EQ", "NE"}
    /\ ArraySchema[tr_ast.field_name].datatype # "INVALID"

\* out is UserError::CellValNumMismatch(cvn, k).
Mismatch(cvn, k, out) ==
    /\ out.tag = "Err" /\ out.err.kind = "User" /\ out.err.name = "CellValNumMismatch"
    /\ out.err.args = <<cvn, k>>

\* What C20 says of a field f, the payload and the result: DatatypeMismatch
\* when the payload length is no multiple of the value size; otherwise, with
\* k decoded values, success exactly when a Single field has k = 1 and a
\* Fixed(N) field k = N, and CellValNumMismatch(arity, k) for any other k.
ArityPolicy(f, data, out) ==
    LET vs == value_size(f.datatype)
        k == Len(data) \div vs
    IN  IF Len(data) % vs # 0
        THEN out.tag = "Err" /\ out.err.name = "DatatypeMismatch"
        ELSE CASE f.cvn.k = "Single" ->
                    IF k = 1 THEN out.tag = "Ok" ELSE Mismatch(f.cvn, k, out)
               [] f.cvn.k = "Fixed" ->
                    IF k - f.cvn.over = f.cvn.n THEN out.tag = "Ok" ELSE Mismatch(f.cvn, k, out)
               [] OTHER -> TRUE

\* C20 as claimed: the arity policy holds for every comparison leaf with a
\* non-empty payload, whatever the arity N of a Fixed(N) field.
C20_ArityPolicy ==
    ComparisonDone => ArityPolicy(ArraySchema[tr_ast.field_name], tr_ast.data, tr_out)

\* C20 as amended: the arity policy holds for Single fields and for Fixed(N)
\* fields with N up to i32::MAX; on a Fixed(N) field with N above i32::MAX a
\* payload of whole values fails with InternalError::SchemaField naming the
\* field, whatever k is, and any other payload with DatatypeMismatch.
C20_ArityPolicyWithinI32 ==
    ComparisonDone =>
        LET f == ArraySchema[tr_ast.field_name]
        IN  IF f.cvn.k = "Fixed" /\ f.cvn.over > 0
            THEN tr_out =
                    IF Len(tr_ast.data) % value_size(f.datatype) # 0
                    THEN TrErr("User", "DatatypeMismatch",
                               <<f.datatype, Len(tr_ast.data)>>, 1)
                    ELSE TrErr("Internal", "SchemaField",
                               <<tr_ast.field_name, "InvalidCellValNum">>, 1)
            ELSE ArityPolicy(f, tr_ast.data, tr_out)

C20_Witness ==
    /\ ComparisonDone /\ tr_ast.field_name = "f" /\ Len(tr_ast.data) = 3
    /\ tr_out.err.name = "CellValNumMismatch"
    /\ tr_out.err.args = <<ArraySchema["f"].cvn, 3>>



\* A translated IN / NOT_IN leaf on a Var field of the schema, with a
\* payload of whole values and an offsets buffer of N valid byte offsets:
\* non-negative, non-decreasing multiples of the value size inside the payload.
InListVarDone ==
    /\ KnownLeafDone /\ tr_ast.op \in {"IN", "NOT_IN"}
    /\ ArraySchema[tr_ast.field_name].cvn.k = "Var"
    /\ ArraySchema[tr_ast.field_name].datatype # "INVALID"
    /\ Len(tr_ast.data) % value_size(ArraySchema[tr_ast.field_name].datatype) = 0
    /\ LET raw == tr_ast.offsets.words
           vs == value_size(ArraySchema[tr_ast.field_name].datatype)
       IN  /\ tr_ast.offsets.misalign = 0 /\ tr_ast.offsets.tail = 0
           /\ \A i \in 1..Len(raw) :
                 raw[i] >= 0 /\ raw[i] % vs = 0 /\ raw[i] <= Len(tr_ast.data)
           /\ \A i \in 1..(Len(raw) - 1) : raw[i] <= raw[i + 1]

\* The decoded values of the payload, and the element offsets of the N raw
\* offsets followed by the end of the payload.
PayloadValues ==
    values_iter(ArraySchema[tr_ast.field_name].datatype, tr_ast.data).values
MemberBounds ==
    LET vs == value_size(ArraySchema[tr_ast.field_name].datatype)
        raw == tr_ast.offsets.words
    IN  [i \in 1..(Len(raw) + 1) |->
            IF i <= Len(raw) THEN raw[i] \div vs ELSE Len(PayloadValues)]

\* The values of the members of an InList of list literals, one after another.
RECURSIVE Concatenated(_)
Concatenated(list) ==
    IF Len(list) = 0 THEN <<>> ELSE Head(list).value.v \o Concatenated(Tail(list))

\* The InList has N members, member i holding the values from offset i up to
\* offset i+1 (the last up to the end of the payload), and negated is true
\* exactly for NOT_IN.
MembersDelimited ==
    /\ tr_out.tag = "Ok" /\ tr_out.expr.e = "InList"
    /\ tr_out.expr.expr = Column(tr_ast.field_name)
    /\ tr_out.expr.negated = (tr_ast.op = "NOT_IN")
    /\ Len(tr_out.expr.list) = Len(tr_ast.offsets.words)
    /\ \A i \in 1..Len(tr_ast.offsets.words) :
          tr_out.expr.list[i] =
             Literal(SvLargeList(SubSeq(PayloadValues, MemberBounds[i] + 1,
                                        MemberBounds[i + 1])))

\* C21 as claimed: the members are delimited by the offsets, and concatenated
\* in order they equal the payload.
C21_MembersArePayload ==
    InListVarDone =>
        MembersDelimited /\ Concatenated(tr_out.expr.list) = PayloadValues

\* C21 as amended: the members are delimited by the offsets, and concatenated
\* in order they equal the payload from the first offset on; that is the
\* whole payload when there is a first offset and it is 0, or the payload is
\* empty.  Without offsets there are no members.
C21_MembersFromFirstOffset ==
    InListVarDone =>
        /\ MembersDelimited
        /\ Concatenated(tr_out.expr.list) =
              SubSeq(PayloadValues, MemberBounds[1] + 1, Len(PayloadValues))
        /\ (Len(tr_ast.offsets.words) >= 1 /\ tr_ast.offsets.words[1] = 0) =>
              Concatenated(tr_out.expr.list) = PayloadValues

C21_Witness ==
    /\ InListVarDone /\ tr_ast.field_name = "w" /\ tr_ast.op = "NOT_IN"
    /\ tr_ast.data = <<1, 0, 1>> /\ tr_ast.offsets.words = <<0, 1>>
    /\ tr_out.expr.list = <<Literal(SvLargeList(<<1>>)), Literal(SvLargeList(<<0, 1>>))>>

\* C24: every call of to_datafusion returns, with an expression or with an
\* error, also for an AND/OR node without children; and an AND/OR node with
\* exactly one child translates to the expression of that child alone.
C24_Terminates ==
    tr_out.tag # "None" =>
        /\ tr_out.tag \in {"Ok", "Err"}
        /\ \A child \in {tr_ast.children[i] : i \in 1..Len(tr_ast.children)} :
              /\ tr_ast.is_expr /\ tr_ast.combination_op \in {"AND", "OR"}
              /\ Len(tr_ast.children) = 1
              /\ to_datafusion(ArraySchema, child).tag = "Ok"
              => /\ tr_out.tag = "Ok"
                 /\ tr_out.expr = to_datafusion(ArraySchema, child).expr

(***************************************************************************)
(* Specification of the materialization: one schema, one tile, one call.   *)
(***************************************************************************)

\* The projections of the schema: its fields, each at most once, in any order.
RbSchemas == {<<>>, <<"a">>, <<"b">>, <<"a", "b">>, <<"b", "a">>}

InitRb ==
    /\ rb_schema \in RbSchemas
    /\ rb_tile \in Tiles
    /\ rb_out = RbNone
    /\ OffIdle /\ TrIdle /\ QpIdle /\ RedIdle /\ CIdle /\ QcIdle /\ ItIdle /\ AaIdle /\ ArIdle

CallToRecordBatch ==
    /\ rb_out.tag = "None"
    /\ rb_out' = to_record_batch(rb_schema, rb_tile)
    /\ UNCHANGED <<rb_schema, rb_tile, offVars, trVars, qpVars, redVars, cVars, qcVars, itVars, aaVars, arVars>>

NextRb == CallToRecordBatch

SpecRb == InitRb /\ [][NextRb]_vars

\* The fields of the projected schema without and with a tile triple.
Missing(i) == ~rb_tile.tuples[rb_schema[i]].some
Present(i) == rb_tile.tuples[rb_schema[i]].some

\* The column of a field that has a tile triple, made by itself.
OwnColumn(i) ==
    LET t == rb_tile.tuples[rb_schema[i]]
    IN  to_arrow_array(ArrowField(rb_schema[i]), t.fixed, t.has_var, t.validity)

\* C18: for every projected field without a tile triple the batch holds an
\* all-null column of the field's data type and of cell_num cells, and the
\* call does not fail because of it: when the call gives no batch, a field
\* that has a tile triple has no column or one that is not cell_num long.
C18_MissingTileIsNullColumn ==
    /\ rb_out.tag = "Ok" =>
          \A i \in 1..Len(rb_schema) : Missing(i) =>
             /\ rb_out.cols[i].name = rb_schema[i]
             /\ rb_out.cols[i].data_type = ArrowField(rb_schema[i]).data_type
             /\ rb_out.cols[i].col = [k \in 1..rb_tile.cell_num |-> Null]
    /\ rb_out.tag \in {"Err", "Panic"} =>
          \E i \in 1..Len(rb_schema) :
             /\ Present(i)
             /\ OwnColumn(i).tag = "Ok" => Len(OwnColumn(i).col) # rb_tile.cell_num

C18_Witness ==
    /\ rb_out.tag = "Ok" /\ rb_schema = <<"b", "a">> /\ rb_tile.cell_num = MaxCells
    /\ Missing(1) /\ Present(2)
    /\ rb_out.cols[1].col = [k \in 1..MaxCells |-> Null]

\* C19: a returned batch has one column per projected field, in schema
\* order, each of its field's data type and of cell_num cells, and cell_num
\* rows, also when the schema has no fields; when all columns are made and
\* one of them is not cell_num long the call aborts, returning neither a
\* batch nor an error.
C19_BatchInvariant ==
    /\ rb_out.tag = "Ok" =>
          /\ Len(rb_out.cols) = Len(rb_schema)
          /\ rb_out.num_rows = rb_tile.cell_num
          /\ \A i \in 1..Len(rb_schema) :
                /\ rb_out.cols[i].name = rb_schema[i]
                /\ rb_out.cols[i].data_type = ArrowField(rb_schema[i]).data_type
                /\ Len(rb_out.cols[i].col) = rb_tile.cell_num
    /\ (/\ rb_out.tag # "None"
        /\ \A i \in 1..Len(rb_schema) : Present(i) => OwnColumn(i).tag = "Ok"
        /\ \E i \in 1..Len(rb_schema) :
              Present(i) /\ Len(OwnColumn(i).col) # rb_tile.cell_num) =>
          rb_out.tag = "Panic"

C19_Witness ==
    /\ rb_out.tag = "Panic" /\ rb_schema = <<"b", "a">>
    /\ OwnColumn(2).tag = "Ok" /\ Len(OwnColumn(2).col) = rb_tile.cell_num - 1

(***************************************************************************)
(* Specification of to_arrow_array called on its own: one field, nullable  *)
(* or not, and the buffers of one tile tuple.                              *)
(***************************************************************************)
AaFields == {[name |-> "a", data_type |-> "UInt8", nullable |-> nl] : nl \in BOOLEAN}
AaValidities == {NoValidity} \cup {Validity(bytes) : bytes \in SeqsOf(0..2, 0, MaxCells)}
AaTuples ==
    {TileTuple(t[1], t[2], t[3]) :
        t \in SeqsOf(CellVals, 0, MaxCells) \X BOOLEAN \X AaValidities}

InitAa ==
    /\ aa_f \in AaFields
    /\ aa_tile \in AaTuples
    /\ aa_out = ColNone
    /\ OffIdle /\ TrIdle /\ QpIdle /\ RedIdle /\ CIdle /\ RbIdle /\ QcIdle /\ ItIdle
    /\ ArIdle

CallToArrowArray ==
    /\ aa_out.tag = "None"
    /\ aa_out' = to_arrow_array(aa_f, aa_tile.fixed, aa_tile.has_var, aa_tile.validity)
    /\ UNCHANGED <<aa_f, aa_tile, offVars, trVars, qpVars, redVars, cVars, rbVars, qcVars,
                   itVars, arVars>>

NextAa == CallToArrowArray

SpecAa == InitAa /\ [][NextAa]_vars

\* C29: a validity buffer for a field that is not nullable is rejected with
\* UnexpectedValidityTile; without a validity buffer the column has no NULL,
\* for a nullable field too; with a validity buffer for a nullable field
\* cell i is NULL exactly when validity byte i is 0.
C29_ValidityPolicy ==
    aa_out.tag # "None" =>
        LET validity == aa_tile.validity
            sound == ~aa_tile.has_var /\ (validity.some => Len(validity.bytes) = Len(aa_tile.fixed))
        IN  /\ validity.some /\ ~aa_f.nullable => aa_out = ColErr("UnexpectedValidityTile")
            /\ ~validity.some /\ sound =>
                  /\ aa_out.tag = "Ok" /\ Len(aa_out.col) = Len(aa_tile.fixed)
                  /\ \A i \in 1..Len(aa_out.col) : aa_out.col[i] # Null
            /\ validity.some /\ aa_f.nullable /\ sound =>
                  /\ aa_out.tag = "Ok" /\ Len(aa_out.col) = Len(aa_tile.fixed)
                  /\ \A i \in 1..Len(aa_out.col) :
                        (aa_out.col[i] = Null) <=> (validity.bytes[i] = 0)

\* C29 happens: a nullable field with the validity bytes 2 and 0 has a
\* column whose first cell is a value and whose second cell is NULL.
C29_Witness ==
    /\ aa_f.nullable
    /\ aa_tile = TileTuple(<<1, 1>>, FALSE, Validity(<<2, 0>>))
    /\ aa_out.tag = "Ok" /\ aa_out.col = <<1, Null>>

(***************************************************************************)
(* Specification of the checked arithmetic: one call of one function.      *)
(***************************************************************************)
\* The arguments: the values of n limbs around 0, around the largest signed
\* value and around the largest unsigned value.
Words(n) ==
    {<<t[1]>> \o [i \in 1..(n - 2) |-> t[2]] \o <<t[3]>> :
        t \in {0, 1, Base - 2, Base - 1} \X {0, Base - 1} \X {0, Half - 1, Half, Base - 1}}

\* What out may hold before the call.
Outs(n) == {[i \in 1..n |-> 0], [i \in 1..n |-> 7]}

InitAr ==
    /\ \E fn \in DOMAIN ArFns :
          ar_call \in [fn : {fn}, a : Words(ArFns[fn].T.limbs), b : Words(ArFns[fn].T.limbs),
                       out : Outs(ArFns[fn].O.limbs)]
    /\ ar_res = ArNone
    /\ OffIdle /\ TrIdle /\ QpIdle /\ RedIdle /\ CIdle /\ RbIdle /\ QcIdle /\ ItIdle
    /\ AaIdle

CallChecked ==
    /\ ar_res.ret = ""
    /\ ar_res' = ar_call_fn(ar_call.fn, ar_call.a, ar_call.b, ar_call.out)
    /\ UNCHANGED <<ar_call, offVars, trVars, qpVars, redVars, cVars, rbVars, qcVars,
                   itVars, aaVars>>

NextAr == CallChecked

SpecAr == InitAr /\ [][NextAr]_vars

\* The mathematical integer a value of type T stands for, written with one
\* limb more than an i128 has, so that no sum or difference of two values of
\* the program wraps.
MathLimbs == I128.limbs + 1
Math(T, x) ==
    x \o [i \in 1..(MathLimbs - Len(x)) |-> IF T.signed /\ x[Len(x)] >= Half THEN Base - 1 ELSE 0]
MathAdd(x, y) == carrying_add(x, y, 0).r
MathSub(x, y) == borrowing_sub(x, y).r

\* The exact result of the call, and whether the type O can represent it.
Exact ==
    LET T == ArFns[ar_call.fn].T
    IN  IF ArFns[ar_call.fn].op = "add"
        THEN MathAdd(Math(T, ar_call.a), Math(T, ar_call.b))
        ELSE MathSub(Math(T, ar_call.a), Math(T, ar_call.b))
Representable(O, x) == Math(O, SubSeq(x, 1, O.limbs)) = x

\* C30: a checked add or sub returns true with out the exact mathematical
\* result when the type of out can represent that result, and returns false
\* with out unchanged when it cannot; for u64_checked_sub_signed the type of
\* out is i64, that is -2^63 <= a - b <= 2^63 - 1.
C30_CheckedArithmetic ==
    ar_res.ret # "" =>
        LET O == ArFns[ar_call.fn].O
        IN  IF Representable(O, Exact)
            THEN ar_res = ArRes("true", SubSeq(Exact, 1, O.limbs))
            ELSE ar_res = ArRes("false", ar_call.out)

\* C30 happens: i64::MAX - (-1) has overflowed and out is what it was, and
\* cases where the call succeeded are reached as well.
C30_Witness ==
    /\ ar_call.fn = "i64_checked_sub"
    /\ ar_call.a = <<Base - 1, Base - 1, Base - 1, Half - 1>>
    /\ ar_call.b = <<Base - 1, Base - 1, Base - 1, Base - 1>>
    /\ ar_call.out = <<7, 7, 7, 7>>
    /\ ar_res = ArRes("false", <<7, 7, 7, 7>>)

(***************************************************************************)
(* Specification of the evaluation of a query condition on a tile:         *)
(* to_datafusion, create_physical_expr, PhysicalExpr::evaluate, cast_to    *)
(* and values_u8, as instance_ffi of the unit-query-condition library      *)
(* chains them.                                                            *)
(***************************************************************************)
QcOk(bytes) == [tag |-> "Ok", bytes |-> bytes, err |-> ""]
QcErr(e) == [tag |-> "Err", bytes |-> <<>>, err |-> e]

\* The record batch of a tile whose cells give a value of "d" and a value or
\* NULL of "n".
QcBatch(tile) ==
    RbOk(<<[name |-> "d", col |-> [i \in 1..Len(tile) |-> tile[i].d], data_type |-> "UInt8"],
           [name |-> "n", col |-> [i \in 1..Len(tile) |-> tile[i].n], data_type |-> "UInt16"]>>,
         Len(tile))

\* PhysicalExprOutput::cast_to(Datatype::UINT8) of a Boolean array: true is
\* 1, false is 0 and NULL stays NULL.
cast_to(a) ==
    [i \in 1..Len(a) |-> IF a[i] = Null THEN Null ELSE IF a[i] = True3 THEN 1 ELSE 0]

\* PhysicalExprOutput::values_u8: the values buffer, which holds 0 where the
\* array is NULL.
values_u8(a) == [i \in 1..Len(a) |-> IF a[i] = Null THEN 0 ELSE a[i]]

instance_ffi(array_schema, tile, ast, short_circuit) ==
    LET t == to_datafusion(array_schema, ast)
    IN  IF t.tag # "Ok" THEN QcErr("to_datafusion")
        ELSE LET r == evaluate_expr(t.expr, QcBatch(tile), short_circuit)
             IN  IF r.kind \in {"Err", "Panic"} THEN QcErr("evaluate")
                 ELSE IF r.type # "Boolean" THEN QcErr("cast_to")
                 ELSE QcOk(values_u8(cast_to(into_array(r, Len(tile)))))

\* The conditions: comparisons of "d" and of "n" with a constant, the null
\* tests of "n", and the AND and the OR of two of them.
QcLeaves ==
    {Leaf("d", op, <<b>>, EmptyBuf) :
        op \in {"LT", "LE", "GT", "GE", "EQ", "NE"}, b \in 0..MaxByte}
    \cup {Leaf("n", op, <<b, 0>>, EmptyBuf) : op \in {"LT", "GE"}, b \in 0..MaxByte}
    \cup {Leaf("n", op, <<>>, EmptyBuf) : op \in {"EQ", "NE"}}
QcConditions == {Comb(cop, <<l, r>>) : cop \in {"AND", "OR"}, l \in QcLeaves, r \in QcLeaves}
QcCells == {[d |-> 0, n |-> Null], [d |-> 1, n |-> 0], [d |-> 0, n |-> 1], [d |-> 2, n |-> Null]}
QcTiles == SeqsOf(QcCells, 1, MaxCells)

\* The example "4 <= d <= 8" on the cells d = 1, ..., 10.
ExampleCells == [i \in 1..10 |-> [d |-> i, n |-> Null]]
ExampleAnd == Comb("AND", <<Leaf("d", "GE", <<4>>, EmptyBuf), Leaf("d", "LE", <<8>>, EmptyBuf)>>)

InitQc ==
    /\ \/ qc_ast \in QcConditions /\ qc_tile \in QcTiles
       \/ qc_ast = ExampleAnd /\ qc_tile = ExampleCells
    /\ qc_out = QcNone
    /\ OffIdle /\ TrIdle /\ QpIdle /\ RedIdle /\ CIdle /\ RbIdle /\ ItIdle /\ AaIdle /\ ArIdle

CallInstance ==
    /\ qc_out.tag = "None"
    /\ \E short_circuit \in ShortCircuits :
          qc_out' = instance_ffi(ArraySchema, qc_tile, qc_ast, short_circuit)
    /\ UNCHANGED <<qc_ast, qc_tile, offVars, trVars, qpVars, redVars, cVars, rbVars, itVars, aaVars, arVars>>

NextQc == CallInstance

SpecQc == InitQc /\ [][NextQc]_vars

\* The AND and the OR of two result bytes.
ByteAnd(x, y) == IF x = 1 /\ y = 1 THEN 1 ELSE 0
ByteOr(x, y) == IF x = 1 \/ y = 1 THEN 1 ELSE 0

\* The bytes of the two operands of the condition, each evaluated on its own
\* on the same tile, combined row by row.
Rowwise(short_circuit) ==
    LET lhs == instance_ffi(ArraySchema, qc_tile, qc_ast.children[1], short_circuit)
        rhs == instance_ffi(ArraySchema, qc_tile, qc_ast.children[2], short_circuit)
    IN  IF lhs.tag # "Ok" \/ rhs.tag # "Ok" THEN QcErr("operand")
        ELSE QcOk([i \in 1..Len(qc_tile) |->
                      IF qc_ast.combination_op = "AND"
                      THEN ByteAnd(lhs.bytes[i], rhs.bytes[i])
                      ELSE ByteOr(lhs.bytes[i], rhs.bytes[i])])

\* C22: the result of lhs AND rhs (of lhs OR rhs) on a tile has one byte per
\* row, the AND (the OR) of the bytes that lhs and rhs give for that row when
\* each is evaluated on its own on the same tile; and (d >= 4) AND (d <= 8)
\* on d = 1, ..., 10 gives 0,0,0,1,1,1,1,1,0,0.
C22_CombinedIsRowwise ==
    qc_out.tag # "None" =>
        /\ \A short_circuit \in ShortCircuits : qc_out = Rowwise(short_circuit)
        /\ qc_out.tag = "Ok"
        /\ qc_ast = ExampleAnd => qc_out.bytes = <<0, 0, 0, 1, 1, 1, 1, 1, 0, 0>>

\* C22 happens: n < 1 OR d < 1 on a cell whose n is NULL and whose d is 0
\* keeps the cell, and on a cell whose n is NULL and whose d is 2 drops it.
C22_Witness ==
    /\ qc_out.tag = "Ok"
    /\ qc_ast = Comb("OR", <<Leaf("n", "LT", <<1, 0>>, EmptyBuf),
                             Leaf("d", "LT", <<1>>, EmptyBuf)>>)
    /\ qc_tile = <<[d |-> 0, n |-> Null], [d |-> 2, n |-> Null]>>
    /\ qc_out.bytes = <<1, 0>>

(***************************************************************************)
(* Specification of Append: one iterator made by append, then any calls of *)
(* next and len.                                                           *)
(***************************************************************************)
InitIt ==
    /\ it_src \in SeqsOf(0..1, 0, MaxItems)
    /\ it_value \in 0..2
    /\ it = new(it_src, it_value)
    /\ it_hist = <<>>
    /\ it_ret = ItRet("", NoItem)
    /\ OffIdle /\ TrIdle /\ QpIdle /\ RedIdle /\ CIdle /\ RbIdle /\ QcIdle /\ AaIdle /\ ArIdle

CallNext ==
    /\ Len(it_hist) < Len(it_src) + 1 + MaxLate
    /\ it' = next(it).self
    /\ it_hist' = Append(it_hist, next(it).ret)
    /\ it_ret' = ItRet("next", next(it).ret)
    /\ UNCHANGED <<it_src, it_value, offVars, trVars, qpVars, redVars, cVars, rbVars, qcVars, aaVars, arVars>>

CallLen ==
    /\ ~len(it).panic
    /\ it_ret' = ItRet("len", SomeItem(len(it).n))
    /\ UNCHANGED <<it_src, it_value, it, it_hist, offVars, trVars, qpVars, redVars, cVars,
                   rbVars, qcVars, aaVars, arVars>>

NextIt == CallNext \/ CallLen

SpecIt == InitIt /\ [][NextIt]_vars

\* What call number i of next is to return: the elements of the underlying
\* iterator in order, then the value, then None.
Yield(i) ==
    IF i <= Len(it_src) THEN SomeItem(it_src[i])
    ELSE IF i = Len(it_src) + 1 THEN SomeItem(it_value)
    ELSE NoItem

\* The number of elements still to be yielded.
StillToYield ==
    IF Len(it_hist) <= Len(it_src) THEN Len(it_src) + 1 - Len(it_hist) ELSE 0

\* C23: the calls of next return the elements of the underlying iterator in
\* order, then the value once, then None on every later call; and at every
\* point len() returns the number of elements still to be yielded.
C23_AppendYields ==
    /\ \A i \in 1..Len(it_hist) : it_hist[i] = Yield(i)
    /\ len(it) = [panic |-> FALSE, n |-> StillToYield]
    /\ it_ret.op = "len" => it_ret.ret = SomeItem(StillToYield)

\* C23 happens: a two-element iterator with a value appended has yielded its
\* elements, the value and None twice, and len() has returned 0.
C23_Witness ==
    /\ it_src = <<1, 0>> /\ it_value = 2
    /\ it_hist = <<SomeItem(1), SomeItem(0), SomeItem(2), NoItem, NoItem>>
    /\ it_ret = ItRet("len", SomeItem(0))

(***************************************************************************)
(* The QueryPredicates object: any sequence of calls on one object and one *)
(* caller-owned bitmap.                                                    *)
(***************************************************************************)

\* QueryPredicates::add_text_predicate
qp_add_text_predicate(q, text) ==
    IF q.state = "Build"
    THEN LET r == builder_add_text_predicate(q.logical_exprs, text)
         IN  [ret |-> r.ret, qp |-> Build(r.logical_exprs)]
    ELSE [ret |-> QpErr("InvalidState"), qp |-> q]

\* QueryPredicates::compile
qp_compile_again(q) ==
    IF q.state = "Build"
    THEN LET r == builder_compile(q.logical_exprs)
         IN  IF r.ret.tag = "Ok" THEN [ret |-> QpOk, qp |-> Evaluate(r.dfschema, r.predicate)]
             ELSE [ret |-> r.ret, qp |-> q]
    ELSE [ret |-> QpOk, qp |-> Build(<<>>)]

\* compile that leaves an empty Build state behind when a predicate does
\* not compile.
qp_compile_clears(q) ==
    IF q.state = "Build"
    THEN LET r == builder_compile(q.logical_exprs)
         IN  IF r.ret.tag = "Ok" THEN [ret |-> QpOk, qp |-> Evaluate(r.dfschema, r.predicate)]
             ELSE [ret |-> r.ret, qp |-> Build(<<>>)]
    ELSE [ret |-> QpErr("InvalidState"), qp |-> q]

qp_compile(q) ==
    IF q.state = "Build"
    THEN LET r == builder_compile(q.logical_exprs)
         IN  IF r.ret.tag = "Ok" THEN [ret |-> QpOk, qp |-> Evaluate(r.dfschema, r.predicate)]
             ELSE [ret |-> r.ret, qp |-> q]
    ELSE [ret |-> QpErr("InvalidState"), qp |-> q]

\* QueryPredicates::field_names
qp_field_names(q) ==
    IF q.state = "Build" THEN field_names(q.logical_exprs) ELSE q.dfschema

\* QueryPredicates::evaluate
qp_evaluate(q, tile, short_circuit) ==
    IF q.state = "Build" THEN CvErr("InvalidState")
    ELSE evaluator_evaluate(q, tile, short_circuit)

\* QueryPredicates::evaluate_into_bitmap
qp_evaluate_into_bitmap_unguarded(q, tile, bm, short_circuit) ==
    LET e == IF q.state = "Build" THEN Evaluate(<<>>, conjunction(<<>>)) ELSE q
        result == evaluator_evaluate(e, tile, short_circuit)
    IN  [result |-> result] @@ reduce_into_bitmap(result, bm)

\* evaluate_into_bitmap that clears the bitmap when the evaluation fails.
qp_evaluate_into_bitmap_clears(q, tile, bm, short_circuit) ==
    IF q.state = "Build"
    THEN [result |-> CvNone, bitmap |-> bm, ret |-> QpErr("InvalidState")]
    ELSE LET result == evaluator_evaluate(q, tile, short_circuit)
         IN  IF result.kind = "Err"
             THEN [result |-> result, bitmap |-> fill_zero(bm), ret |-> QpErr(result.type)]
             ELSE [result |-> result] @@ reduce_into_bitmap(result, bm)

qp_evaluate_into_bitmap(q, tile, bm, short_circuit) ==
    IF q.state = "Build"
    THEN [result |-> CvNone, bitmap |-> bm, ret |-> QpErr("InvalidState")]
    ELSE LET result == evaluator_evaluate(q, tile, short_circuit)
         IN  [result |-> result] @@ reduce_into_bitmap(result, bm)

\* The inputs of the calls: bitmaps of any length up to MaxCells, the tiles
\* without a validity tile and the broken ones, and the predicate texts.
QpBitmaps == SeqsOf(BitVals, 0, MaxCells)
QpTiles == {t \in Tiles : ~t.tuples["a"].validity.some \/ t \in BrokenTiles}
QpTexts == GoodTexts \cup BadTexts

InitQP ==
    /\ qp = Build(<<>>)
    /\ bitmap \in QpBitmaps
    /\ qp_ret = QpOk
    /\ qp_hist = Hist("new", bitmap, 0)
    /\ OffIdle /\ TrIdle /\ RedIdle /\ CIdle /\ RbIdle /\ QcIdle /\ ItIdle /\ AaIdle /\ ArIdle

\* A panic ends the process: nothing is called after it.
Running == qp_ret.tag # "Panic"

AddTextPredicate ==
    /\ Running
    /\ qp.state = "Build" => Len(qp.logical_exprs) < MaxPreds
    /\ \E text \in QpTexts :
          LET r == qp_add_text_predicate(qp, text)
          IN  /\ qp' = r.qp
              /\ qp_ret' = r.ret
              /\ qp_hist' = Hist("add_text_predicate", qp_hist.bitmap0, qp_hist.compiles)
    /\ UNCHANGED <<bitmap, offVars, trVars, redVars, cVars, rbVars, qcVars, itVars, aaVars, arVars>>

Compile ==
    /\ Running
    /\ LET r == qp_compile(qp)
       IN  /\ qp' = r.qp
           /\ qp_ret' = r.ret
           /\ qp_hist' = Hist("compile", qp_hist.bitmap0,
                              IF r.ret.tag = "Ok" THEN Min(qp_hist.compiles + 1, MaxCompiles)
                              ELSE qp_hist.compiles)
    /\ UNCHANGED <<bitmap, offVars, trVars, redVars, cVars, rbVars, qcVars, itVars, aaVars, arVars>>

GetFieldNames ==
    /\ Running
    /\ qp_ret' = [tag |-> "Ok", err |-> "", names |-> qp_field_names(qp)]
    /\ qp_hist' = Hist("field_names", qp_hist.bitmap0, qp_hist.compiles)
    /\ UNCHANGED <<qp, bitmap, offVars, trVars, redVars, cVars, rbVars, qcVars, itVars, aaVars, arVars>>

EvaluateTile ==
    /\ Running
    /\ \E tile \in QpTiles, short_circuit \in ShortCircuits :
          LET result == qp_evaluate(qp, tile, short_circuit)
          IN  /\ qp_ret' = IF result.kind = "Err" THEN QpErr(result.type)
                           ELSE IF result.kind = "Panic" THEN QpPanic ELSE QpOk
              /\ qp_hist' = Hist("evaluate", qp_hist.bitmap0, qp_hist.compiles)
    /\ UNCHANGED <<qp, bitmap, offVars, trVars, redVars, cVars, rbVars, qcVars, itVars, aaVars, arVars>>

EvaluateIntoBitmap ==
    /\ Running
    /\ \E tile \in QpTiles, short_circuit \in ShortCircuits :
          LET r == qp_evaluate_into_bitmap(qp, tile, bitmap, short_circuit)
          IN  /\ bitmap' = r.bitmap
              /\ qp_ret' = r.ret
              /\ qp_hist' = Hist("evaluate_into_bitmap", qp_hist.bitmap0, qp_hist.compiles)
    /\ UNCHANGED <<qp, offVars, trVars, redVars, cVars, rbVars, qcVars, itVars, aaVars, arVars>>

NextQP == AddTextPredicate \/ Compile \/ GetFieldNames \/ EvaluateTile \/ EvaluateIntoBitmap

SpecQP == InitQP /\ [][NextQP]_vars


\* C2: the selection bitmap is only ever narrowed.  No call on the object
\* (any predicate, any tile, scalar and per-row results, calls that return an
\* error and calls that panic) changes the length of the bitmap or writes
\* anything but zero: every entry is afterwards what it was before the call
\* or zero.  Hence after any sequence of calls every entry that was zero is
\* still zero and every other entry is unchanged or zero.
C2_OnlyNarrowed ==
    [][/\ Len(bitmap') = Len(bitmap)
       /\ \A i \in 1..Len(bitmap) : bitmap'[i] \in {bitmap[i], 0}]_vars

\* A call of evaluate_into_bitmap that failed after the bitmap had been
\* narrowed, with an entry still set and an entry cleared.
C2_Witness ==
    /\ qp_hist.op = "evaluate_into_bitmap"
    /\ qp_ret.tag \in {"Err", "Panic"}
    /\ \E i, j \in 1..Len(bitmap) :
          /\ bitmap[i] # 0
          /\ bitmap[j] = 0 /\ qp_hist.bitmap0[j] # 0

\* The step is a call of `op` made in `state`.
CalledIn(op, state) == qp.state = state /\ qp_hist'.op = op /\ Running

\* C6: every operation called in the state where it is not valid returns
\* InvalidState and changes nothing: add_text_predicate and compile in
\* Evaluate, evaluate and evaluate_into_bitmap in Build; the state, the
\* accumulated predicates (or the compiled predicate) and the bitmap are
\* what they were.
C6_InvalidStateChangesNothing ==
    [][(\/ CalledIn("add_text_predicate", "Evaluate")
        \/ CalledIn("compile", "Evaluate")
        \/ CalledIn("evaluate", "Build")
        \/ CalledIn("evaluate_into_bitmap", "Build"))
       => (qp_ret' = QpErr("InvalidState") /\ qp' = qp /\ bitmap' = bitmap)]_vars

\* evaluate_into_bitmap was rejected on a Build object that holds a
\* predicate, over a bitmap that has an entry set.
C6_Witness ==
    /\ qp.state = "Build" /\ Len(qp.logical_exprs) > 0
    /\ qp_hist.op = "evaluate_into_bitmap"
    /\ qp_ret = QpErr("InvalidState")
    /\ \E i \in 1..Len(bitmap) : bitmap[i] # 0

\* C7: the object starts in Build; a compile that succeeds moves it to
\* Evaluate; from Evaluate no call moves it back or changes the compiled
\* predicate, and every compile called there returns InvalidState: compile
\* succeeds at most once per object.
C7_CompileOnce ==
    [][/\ qp_hist.op = "new" => (qp.state = "Build" /\ qp_hist.compiles = 0)
       /\ qp_hist'.compiles <= 1
       /\ qp'.state = "Build" <=> qp_hist'.compiles = 0
       /\ qp.state = "Evaluate" => qp' = qp
       /\ (CalledIn("compile", "Build") /\ qp_ret'.tag = "Ok") => qp'.state = "Evaluate"
       /\ (CalledIn("compile", "Build") /\ qp_ret'.tag # "Ok") => qp' = qp
       /\ CalledIn("compile", "Evaluate") => qp_ret' = QpErr("InvalidState")]_vars

\* A compile was rejected on an object that had been compiled, with two
\* predicates in it.
C7_Witness ==
    /\ qp.state = "Evaluate" /\ qp.predicate.e = "BinaryExpr" /\ qp.predicate.op = "And"
    /\ qp_hist.op = "compile" /\ qp_hist.compiles = 1
    /\ qp_ret = QpErr("InvalidState")


\* C27: a call that fails in the Build state changes nothing.  A compile that
\* fails because a predicate does not compile leaves the object in Build
\* with the same predicates, and an add_text_predicate that is rejected
\* (parse error, type coercion error, result type that is not boolean,
\* aggregate function) leaves the predicates and field_names() as they were.
C27_FailedBuildCallChangesNothing ==
    [][(/\ qp.state = "Build"
        /\ qp_hist'.op \in {"compile", "add_text_predicate"}
        /\ qp_ret'.tag = "Err") =>
            /\ qp'.state = "Build"
            /\ qp'.logical_exprs = qp.logical_exprs
            /\ qp_field_names(qp') = qp_field_names(qp)]_vars

\* C27 happens: a compile of two predicates, one without a physical form, has
\* failed and the object is in Build with both predicates.
C27_Witness ==
    /\ qp_hist.op = "compile" /\ qp_ret = QpErr("PhysicalExpr")
    /\ qp.state = "Build" /\ Len(qp.logical_exprs) = 2

\* C28: a call of evaluate_into_bitmap in the Evaluate state that returns an
\* error (the tile is not materialized as a batch, or the predicate fails to
\* evaluate) leaves the bitmap exactly as it was.
C28_ErrorLeavesBitmap ==
    [][(/\ qp.state = "Evaluate"
        /\ qp_hist'.op = "evaluate_into_bitmap"
        /\ qp_ret'.tag = "Err") =>
            /\ qp_ret'.err \in {"ResultTile", "Evaluate"}
            /\ bitmap' = bitmap]_vars

\* C28 happens: the predicate has failed to evaluate on a tile and the
\* bitmap still has an entry set.
C28_Witness ==
    /\ qp.state = "Evaluate" /\ qp_hist.op = "evaluate_into_bitmap"
    /\ qp_ret = QpErr("Evaluate")
    /\ \E i \in 1..Len(bitmap) : bitmap[i] # 0

(***************************************************************************)
(* Reductions side by side: from one tile and one bitmap, the runs         *)
(*   1. evaluator of P1, once          2. evaluator of P1, twice           *)
(*   3. evaluator of P1, then of P2    4. evaluator of P2, then of P1      *)
(*   5. the evaluator of P1 and P2                                         *)
(***************************************************************************)

RedTexts == {"a < 1", "a IS NULL", "b IS NULL", "TRUE", "FALSE", "NULL", "1 / a = 1"}

\* QueryPredicates::new, add_text_predicate for each text, compile: the
\* object in the Evaluate state (every text of RedTexts is accepted).
RECURSIVE add_all(_, _)
add_all(q, texts) ==
    IF Len(texts) = 0 THEN q
    ELSE add_all(qp_add_text_predicate(q, Head(texts)).qp, Tail(texts))

compiled(texts) == qp_compile(add_all(Build(<<>>), texts)).qp

\* A run: the bitmap it leaves, and per call what was returned and what
\* the predicate evaluated to.  After a panic no further call is made.
RunStart(bm) == [bitmap |-> bm, rets |-> <<>>, results |-> <<>>]
RunCall(run, texts, tile, short_circuit) ==
    IF \E i \in 1..Len(run.rets) : run.rets[i].tag = "Panic" THEN run
    ELSE LET r == qp_evaluate_into_bitmap(compiled(texts), tile, run.bitmap, short_circuit)
         IN  [bitmap |-> r.bitmap, rets |-> Append(run.rets, r.ret),
              results |-> Append(run.results, r.result)]

RedInputs ==
    UNION {[p1 : RedTexts, p2 : RedTexts, tile : {t},
            bm0 : [1..t.cell_num -> BitVals]] : t \in Tiles}

NoRuns == [k \in {} |-> RunStart(<<>>)]

InitRed ==
    /\ red_in \in RedInputs
    /\ red_pc = 0
    /\ red_out = NoRuns
    /\ OffIdle /\ TrIdle /\ QpIdle /\ CIdle /\ RbIdle /\ QcIdle /\ ItIdle /\ AaIdle /\ ArIdle

Record(name, run) ==
    /\ red_out' = red_out @@ (name :> run)
    /\ red_pc' = red_pc + 1
    /\ UNCHANGED <<red_in, offVars, trVars, qpVars, cVars, rbVars, qcVars, itVars, aaVars, arVars>>

RunOnce ==
    /\ red_pc = 0
    /\ \E sc \in ShortCircuits :
          Record("once", RunCall(RunStart(red_in.bm0), <<red_in.p1>>, red_in.tile, sc))

RunTwice ==
    /\ red_pc = 1
    /\ \E sc \in ShortCircuits :
          Record("twice",
                 RunCall(RunCall(RunStart(red_in.bm0), <<red_in.p1>>, red_in.tile, sc),
                         <<red_in.p1>>, red_in.tile, sc))

RunP1ThenP2 ==
    /\ red_pc = 2
    /\ \E sc \in ShortCircuits :
          Record("p1p2",
                 RunCall(RunCall(RunStart(red_in.bm0), <<red_in.p1>>, red_in.tile, sc),
                         <<red_in.p2>>, red_in.tile, sc))

RunP2ThenP1 ==
    /\ red_pc = 3
    /\ \E sc \in ShortCircuits :
          Record("p2p1",
                 RunCall(RunCall(RunStart(red_in.bm0), <<red_in.p2>>, red_in.tile, sc),
                         <<red_in.p1>>, red_in.tile, sc))

RunBoth ==
    /\ red_pc = 4
    /\ \E sc \in ShortCircuits :
          Record("both", RunCall(RunStart(red_in.bm0), <<red_in.p1, red_in.p2>>,
                                 red_in.tile, sc))

NextRed == RunOnce \/ RunTwice \/ RunP1ThenP2 \/ RunP2ThenP1 \/ RunBoth

SpecRed == InitRed /\ [][NextRed]_vars


\* The evaluation says row i is definitely true.
DefinitelyTrue(result, i) ==
    /\ result.type = "Boolean"
    /\ \/ result.kind = "Scalar" /\ result.v = True3
       \/ result.kind = "Array" /\ result.a[i] = True3

\* Row i of the evaluation is false or null.
FalseOrNull(result, i) ==
    \/ result.type = "Null"
    \/ result.type = "Boolean" /\ into_array(result, i)[i] \in {False3, Null}

AllOk(run) == \A k \in 1..Len(run.rets) : run.rets[k].tag = "Ok"
NoPanic(run) == \A k \in 1..Len(run.rets) : run.rets[k].tag # "Panic"
Done(name) == name \in DOMAIN red_out

\* C1: evaluate_into_bitmap over a bitmap with one entry per cell is
\* fail-closed.  For the evaluator of one predicate and for the evaluator of
\* two: when the evaluation is the scalar true the bitmap is unchanged; when
\* it is the scalar false or a scalar null every entry is zero; when it is a
\* per-row array it has one row per entry, entry i is zero if row i is false
\* or null and is what it was if row i is true.
C1_FailClosed ==
    \A name \in {"once", "both"} \cap DOMAIN red_out :
        LET result == red_out[name].results[1]
            after == red_out[name].bitmap
            before == red_in.bm0
        IN  /\ Len(after) = Len(before)
            /\ result.kind = "Scalar" =>
                  IF result.type = "Boolean" /\ result.v = True3
                  THEN after = before
                  ELSE \A i \in 1..Len(after) : after[i] = 0
            /\ result.kind = "Array" =>
                  /\ Len(result.a) = Len(before)
                  /\ \A i \in 1..Len(before) :
                        /\ FalseOrNull(result, i) => after[i] = 0
                        /\ ~FalseOrNull(result, i) => after[i] = before[i]

\* The evaluator of P1 gave the scalar true and left a bitmap with set
\* entries as it was; the evaluator of P1 and P2 gave a per-row
\* result with a true row whose entry is kept and a null row whose entry
\* was set and is cleared.
C1_Witness ==
    /\ Done("once") /\ Done("both")
    /\ LET result == red_out["once"].results[1]
           after == red_out["once"].bitmap
       IN  /\ result.kind = "Scalar" /\ result.type = "Boolean" /\ result.v = True3
           /\ red_out["once"].rets[1].tag = "Ok"
           /\ after = red_in.bm0
           /\ \E i \in 1..Len(after) : after[i] # 0
    /\ LET result == red_out["both"].results[1]
           after == red_out["both"].bitmap
       IN  /\ result.kind = "Array"
           /\ \E i, j \in 1..Len(after) :
                 /\ result.a[i] = True3 /\ after[i] # 0
                 /\ result.a[j] = Null /\ red_in.bm0[j] # 0 /\ after[j] = 0

\* C3: bitmap reduction is idempotent and order-independent.  When no call
\* panics, P1 applied twice leaves the bitmap P1 applied once leaves, and P1
\* then P2 leaves the bitmap P2 then P1 leaves; when the calls return Ok,
\* that bitmap holds the entries that were set beforehand and on which both
\* P1 and P2 are definitely true, and zero elsewhere.
C3_IdempotentOrderIndependent ==
    /\ (Done("twice") /\ NoPanic(red_out["twice"])) =>
          red_out["twice"].bitmap = red_out["once"].bitmap
    /\ (Done("p2p1") /\ NoPanic(red_out["p1p2"]) /\ NoPanic(red_out["p2p1"])) =>
          red_out["p1p2"].bitmap = red_out["p2p1"].bitmap
    /\ (Done("p2p1") /\ AllOk(red_out["p1p2"]) /\ AllOk(red_out["p2p1"])) =>
          \A i \in 1..Len(red_in.bm0) :
              red_out["p1p2"].bitmap[i] =
                  IF /\ DefinitelyTrue(red_out["p1p2"].results[1], i)
                     /\ DefinitelyTrue(red_out["p2p1"].results[1], i)
                  THEN red_in.bm0[i] ELSE 0

\* Two different per-row predicates, each true on a row the other is not
\* true on, applied in both orders: an entry survives and entries that
\* were set are cleared.
C3_Witness ==
    /\ Done("p2p1") /\ AllOk(red_out["p1p2"]) /\ AllOk(red_out["p2p1"])
    /\ LET r1 == red_out["p1p2"].results[1]
           r2 == red_out["p2p1"].results[1]
           after == red_out["p2p1"].bitmap
       IN  /\ r1.kind = "Array" /\ r2.kind = "Array" /\ r1 # r2
           /\ \E i, j \in 1..Len(after) :
                 /\ after[i] # 0
                 /\ red_in.bm0[j] # 0 /\ after[j] = 0 /\ r1.a[j] # r2.a[j]

\* C8: the evaluator Builder::compile yields for P1 and P2 leaves the bitmap
\* the evaluator of P1 followed by the evaluator of P2 leaves, when these two
\* return Ok: entry i is non-zero iff it was non-zero before and P1 and P2
\* are both definitely true on row i.
C8_CompileIsConjunction ==
    (Done("both") /\ AllOk(red_out["p1p2"])) =>
        /\ red_out["both"].bitmap = red_out["p1p2"].bitmap
        /\ \A i \in 1..Len(red_in.bm0) :
              red_out["both"].bitmap[i] # 0 <=>
                  /\ red_in.bm0[i] # 0
                  /\ DefinitelyTrue(red_out["p1p2"].results[1], i)
                  /\ DefinitelyTrue(red_out["p1p2"].results[2], i)


(***************************************************************************)
(* Concurrent evaluation: the threads share one compiled QueryPredicates   *)
(* (&self) and each calls evaluate_into_bitmap once on its own tile and    *)
(* its own bitmap (&mut [T]).  A call is three steps: the record batch,    *)
(* the evaluation, the reduction.                                          *)
(***************************************************************************)

Threads == {1, 2}

ConcPreds ==
    {compiled(<<"a < 1">>), compiled(<<"a IS NULL">>), compiled(<<"1 / a = 1">>),
     compiled(<<"a < 1", "b IS NULL">>)}

\* Tiles of MaxCells cells without a validity tile, and the tile with a var
\* tile on "a" (a ResultTile error).
ConcTiles ==
    {t \in Tiles : /\ t.cell_num = MaxCells
                   /\ ~t.tuples["a"].validity.some
                   /\ to_record_batch(<<"a">>, t).tag # "Panic"}

ConcBitmaps == {[i \in 1..MaxCells |-> 2], [i \in 1..MaxCells |-> IF i = 1 THEN 0 ELSE 2]}

\* Where thread t keeps the record batch of its call: a local of its own.
shared_slot(t) == 1
batch_slot(t) == t

InitConc ==
    /\ c_pred \in ConcPreds
    /\ c_tile \in [Threads -> ConcTiles]
    /\ c_bm0 \in [Threads -> ConcBitmaps]
    /\ c_bm = c_bm0
    /\ c_pc = [t \in Threads |-> "call"]
    /\ c_rb = [t \in Threads |-> RbOk(<<>>, 0)]
    /\ c_res = [t \in Threads |-> CvNone]
    /\ OffIdle /\ TrIdle /\ QpIdle /\ RedIdle /\ RbIdle /\ QcIdle /\ ItIdle /\ AaIdle /\ ArIdle

\* let batch = to_record_batch(self.dfschema.inner(), tile)
ToRecordBatch(t) ==
    /\ c_pc[t] = "call"
    /\ c_rb' = [c_rb EXCEPT ![batch_slot(t)] = to_record_batch(c_pred.dfschema, c_tile[t])]
    /\ c_pc' = [c_pc EXCEPT ![t] = "batch"]
    /\ UNCHANGED <<c_pred, c_tile, c_bm, c_bm0, c_res, offVars, trVars, qpVars, redVars, rbVars, qcVars, itVars, aaVars, arVars>>

\* self.predicate.evaluate(&batch)
EvaluateBatch(t) ==
    /\ c_pc[t] = "batch"
    /\ \E short_circuit \in ShortCircuits :
          c_res' = [c_res EXCEPT ![t] = evaluate_batch(c_pred, c_rb[batch_slot(t)], short_circuit)]
    /\ c_pc' = [c_pc EXCEPT ![t] = "result"]
    /\ UNCHANGED <<c_pred, c_tile, c_bm, c_bm0, c_rb, offVars, trVars, qpVars, redVars, rbVars, qcVars, itVars, aaVars, arVars>>

\* The match on the result, writing the thread's own bitmap.
ReduceResult(t) ==
    /\ c_pc[t] = "result"
    /\ c_bm' = [c_bm EXCEPT ![t] = reduce_into_bitmap(c_res[t], c_bm[t]).bitmap]
    /\ c_pc' = [c_pc EXCEPT ![t] = "done"]
    /\ UNCHANGED <<c_pred, c_tile, c_bm0, c_rb, c_res, offVars, trVars, qpVars, redVars, rbVars, qcVars, itVars, aaVars, arVars>>

NextConc == \E t \in Threads : ToRecordBatch(t) \/ EvaluateBatch(t) \/ ReduceResult(t)

SpecConc == InitConc /\ [][NextConc]_vars

\* C9: a compiled predicate holds no mutable state.  Under every
\* interleaving of the threads' evaluations of one compiled predicate, no
\* step changes the predicate, and each thread's call leaves the bitmap and
\* the result that the same call leaves when it runs alone.
C9_ConcurrentReadOnly ==
    [][/\ c_pred' = c_pred
       /\ \A t \in Threads : c_pc'[t] = "done" =>
             \E short_circuit \in ShortCircuits :
                LET alone == qp_evaluate_into_bitmap(c_pred, c_tile[t], c_bm0[t], short_circuit)
                IN  c_bm'[t] = alone.bitmap /\ c_res'[t] = alone.result]_vars

\* Both threads are done, and they were given
\* tiles on which the predicate leaves different bitmaps.
C9_Witness ==
    /\ \A t \in Threads : c_pc[t] = "done"
    /\ c_rb[1] # c_rb[2]
    /\ c_bm[1] # c_bm[2] /\ c_bm0[1] = c_bm0[2]
    /\ \E i \in 1..MaxCells : c_bm[1][i] # 0


====
